---- MODULE Spec2Model ----
(***************************************************************************)
(* Telemetry analysis engine of GR-Lap-Coach (src/lib/telemetry-engine.ts) *)
(* as a state machine: one invocation of synthesizePerfectLap on the CSV   *)
(* file of a track, stepped through parsing, lap detection, perfect-lap    *)
(* synthesis, the analyzers and the improvement ranker.                    *)
(*                                                                         *)
(* Units.  Timestamps and times are integers in tenths of a second,        *)
(* distances in metres, speeds in km/h, brake pressure and throttle in     *)
(* tenths.  A mean is kept as an exact fraction [num, den].                *)
(***************************************************************************)
EXTENDS Integers, Sequences, FiniteSets, TLC

\* ------------------------------------------------------------------ bounds
MaxSegs == 2
MaxIter == 8
MaxDistance == 4000
MaxMillis == 1200
MaxCalls == 3

\* ------------------------------------------------------- program constants
Infinity == 2147483647

COTA_SECTORS ==
  << [name |-> "S1", start |-> 0,    end |-> 1000],
     [name |-> "S2", start |-> 1000, end |-> 2200],
     [name |-> "S3", start |-> 2200, end |-> 3500],
     [name |-> "S4", start |-> 3500, end |-> Infinity] >>

\* variant: a lower threshold
DRAFTING_SPEED_THRESHOLD_Lower == 161

DRAFTING_SPEED_THRESHOLD == 162
LAP_RESET_HIGH_THRESHOLD == 3000
LAP_RESET_LOW_THRESHOLD == 200

\* ----------------------------------------------------------- array helpers
\* JavaScript arrays are 0-based: At(s, k) is s[k], Slice(s, a, b) is
\* s.slice(a, b).
At(s, k) == s[k + 1]

Slice(s, from, to) == SubSeq(s, from + 1, to)

RECURSIVE SumSeq(_)
SumSeq(s) == IF s = <<>> THEN 0 ELSE Head(s) + SumSeq(Tail(s))

RECURSIVE MaxSeq(_)
MaxSeq(s) ==
  IF Len(s) = 1 THEN s[1]
  ELSE LET m == MaxSeq(Tail(s)) IN IF s[1] >= m THEN s[1] ELSE m

RECURSIVE MinSeq(_)
MinSeq(s) ==
  IF Len(s) = 1 THEN s[1]
  ELSE LET m == MinSeq(Tail(s)) IN IF s[1] <= m THEN s[1] ELSE m

Times(s) == [k \in 1..Len(s) |-> s[k].time]

Speeds(rows) == [k \in 1..Len(rows) |-> rows[k].Speed]

\* ------------------------------------------------------------ input streams
\* A parsed stream is built from runs of consecutive samples.  A run gives
\* the distance of its first sample (10 m more per sample), the number of
\* samples, their speed, the timestamp increment per sample, the brake
\* pressure and the throttle position.
Run(d, n, v, dt, b, a) == [d |-> d, n |-> n, v |-> v, dt |-> dt, b |-> b, a |-> a]

\* a short lap through all four sectors: S2 quick but with a slipstream top
\* speed
SegDraft ==
  << Run(150, 3, 150, 2, 0, 9), Run(1500, 3, 165, 1, 0, 9),
     Run(3100, 3, 150, 2, 5, 0), Run(3600, 2, 150, 3, 0, 9) >>

\* a short lap whose clock runs backwards in S2 and S4
SegRewind ==
  << Run(150, 3, 150, 2, 0, 0), Run(1500, 3, 150, -1, 0, 0),
     Run(3100, 3, 150, 2, 0, 0), Run(3600, 2, 150, -2, 0, 0) >>

\* 8 samples only
SegShort ==
  << Run(150, 4, 150, 2, 0, 0), Run(3100, 4, 150, 2, 0, 0) >>

\* corner sectors only, all above the drafting threshold; does not start
\* below the reset threshold
SegHot ==
  << Run(1500, 6, 165, 2, 5, 0), Run(3100, 5, 165, 2, 0, 9) >>

\* three laps with at least five samples in every sector: a quick one (fast
\* on the straight, exactly at the drafting threshold in S3), a slower one
\* that brakes later in S2, and a hesitant one
SegFullA ==
  << Run(150, 5, 170, 2, 0, 9), Run(1500, 5, 150, 2, 5, 0),
     Run(3100, 5, 162, 2, 0, 9), Run(3600, 5, 120, 2, 0, 0) >>

SegFullB ==
  << Run(150, 5, 150, 3, 0, 9), Run(1540, 5, 140, 20, 5, 0),
     Run(3100, 5, 142, 3, 0, 9), Run(3600, 4, 110, 2, 0, 0),
     Run(3640, 1, 110, 5, 0, 0) >>

SegFullC ==
  << Run(150, 6, 168, 50, 0, 9), Run(1560, 5, 145, 2, 5, 0),
     Run(3200, 5, 153, 2, 0, 9), Run(3600, 5, 100, 2, 0, 0) >>

Segments ==
  { SegDraft, SegRewind, SegShort, SegHot, SegFullA, SegFullB, SegFullC }

RunRows(r, t0) ==
  [j \in 1..r.n |->
     [timestamp |-> t0 + j * r.dt,
      Laptrigger_lapdist_dls |-> r.d + 10 * (j - 1),
      Speed |-> r.v, Steering_Angle |-> 0, pbrake_f |-> r.b, aps |-> r.a]]

RECURSIVE RunsRows(_, _)
RunsRows(runs, t0) ==
  IF runs = <<>> THEN <<>>
  ELSE LET r == Head(runs)
       IN RunRows(r, t0) \o RunsRows(Tail(runs), t0 + r.n * r.dt)

RECURSIVE Flatten(_)
Flatten(segs) == IF segs = <<>> THEN <<>> ELSE Head(segs) \o Flatten(Tail(segs))

Streams ==
  { RunsRows(Flatten(segs), 0) :
      segs \in UNION { [1..k -> Segments] : k \in 0..MaxSegs } }

\* ------------------------------------------------------------------ strings
\* A string is the sequence of its characters, so that toUpperCase,
\* toLowerCase and includes are computed as JavaScript computes them.
LowerCaseLetters ==
  << "a", "b", "c", "d", "e", "f", "g", "h", "i", "j", "k", "l", "m",
     "n", "o", "p", "q", "r", "s", "t", "u", "v", "w", "x", "y", "z" >>

UpperCaseLetters ==
  << "A", "B", "C", "D", "E", "F", "G", "H", "I", "J", "K", "L", "M",
     "N", "O", "P", "Q", "R", "S", "T", "U", "V", "W", "X", "Y", "Z" >>

MapChar(c, from, to) ==
  IF \E k \in 1..Len(from) : from[k] = c
    THEN to[CHOOSE k \in 1..Len(from) : from[k] = c]
    ELSE c

toUpperCase(h) == [k \in 1..Len(h) |-> MapChar(h[k], LowerCaseLetters, UpperCaseLetters)]

toLowerCase(h) == [k \in 1..Len(h) |-> MapChar(h[k], UpperCaseLetters, LowerCaseLetters)]

\* h.includes(p)
includes(h, p) ==
  \E k \in 0..(Len(h) - Len(p)) : SubSeq(h, k + 1, k + Len(p)) = p

\* Array.prototype.find: << >> when no element satisfies the test, else the
\* first one that does, wrapped
FirstOf(s, test(_)) ==
  IF \E k \in 1..Len(s) : test(s[k])
    THEN << s[CHOOSE k \in 1..Len(s) : test(s[k]) /\ \A j \in 1..(k - 1) : ~test(s[j])] >>
    ELSE << >>

\* --------------------------------------------------------- parseTelemetryCSV
raceResultsIndicators ==
  << <<"P", "O", "S", "I", "T", "I", "O", "N">>,
     <<"N", "U", "M", "B", "E", "R">>,
     <<"S", "T", "A", "T", "U", "S">>,
     <<"L", "A", "P", "S">>,
     <<"T", "O", "T", "A", "L", "_", "T", "I", "M", "E">>,
     <<"G", "A", "P", "_", "F", "I", "R", "S", "T">> >>

matchedIndicators(headers) ==
  { k \in 1..Len(raceResultsIndicators) :
      \E j \in 1..Len(headers) : toUpperCase(headers[j]) = raceResultsIndicators[k] }

\* variant: four indicators are needed to reject the file
IsRaceResults_FourIndicators(headers) == Cardinality(matchedIndicators(headers)) >= 4

IsRaceResults(headers) == Cardinality(matchedIndicators(headers)) >= 3

\* the three tests findColumn makes for one pattern; a found header counts
\* only if it is a non-empty string
ExactMatch(headers, pattern) == FirstOf(headers, LAMBDA h : h = pattern)

CaseInsensitiveMatch(headers, pattern) ==
  FirstOf(headers, LAMBDA h : toLowerCase(h) = toLowerCase(pattern))

PartialMatch(headers, pattern) ==
  FirstOf(headers, LAMBDA h : \/ includes(toLowerCase(h), toLowerCase(pattern))
                              \/ includes(toLowerCase(pattern), toLowerCase(h)))

Truthy(found) == found # << >> /\ found[1] # << >>

\* << >> is null
RECURSIVE findColumn(_, _)
findColumn(headers, patterns) ==
  IF patterns = << >> THEN << >>
  ELSE LET pattern == Head(patterns)
           exact == ExactMatch(headers, pattern)
           caseInsensitive == CaseInsensitiveMatch(headers, pattern)
           partial == PartialMatch(headers, pattern)
       IN IF Truthy(exact) THEN exact
          ELSE IF Truthy(caseInsensitive) THEN caseInsensitive
          ELSE IF Truthy(partial) THEN partial
          ELSE findColumn(headers, Tail(patterns))

timestampPatterns ==
  << <<"t", "i", "m", "e", "s", "t", "a", "m", "p">>,
     <<"t", "i", "m", "e">>,
     <<"m", "e", "t", "a", "_", "t", "i", "m", "e">>,
     <<"t">>,
     <<"T", "i", "m", "e">> >>

distancePatterns ==
  << <<"L", "a", "p", "t", "r", "i", "g", "g", "e", "r", "_", "l", "a", "p", "d", "i", "s", "t", "_", "d", "l", "s">>,
     <<"l", "a", "p", "_", "d", "i", "s", "t", "a", "n", "c", "e">>,
     <<"d", "i", "s", "t", "a", "n", "c", "e">>,
     <<"d", "i", "s", "t">>,
     <<"l", "a", "p", "_", "d", "i", "s", "t">> >>

speedPatterns ==
  << <<"S", "p", "e", "e", "d">>,
     <<"s", "p", "e", "e", "d">>,
     <<"v", "e", "l", "o", "c", "i", "t", "y">>,
     <<"v", "e", "l">>,
     <<"s", "p", "d">> >>

steeringPatterns ==
  << <<"S", "t", "e", "e", "r", "i", "n", "g", "_", "A", "n", "g", "l", "e">>,
     <<"s", "t", "e", "e", "r", "i", "n", "g">>,
     <<"s", "t", "e", "e", "r">>,
     <<"a", "n", "g", "l", "e">>,
     <<"s", "t", "e", "e", "r", "i", "n", "g", "_", "a", "n", "g", "l", "e">> >>

brakePatterns ==
  << <<"p", "b", "r", "a", "k", "e", "_", "f">>,
     <<"b", "r", "a", "k", "e">>,
     <<"b", "r", "a", "k", "e", "_", "p", "r", "e", "s", "s", "u", "r", "e">>,
     <<"p", "b", "r", "a", "k", "e">>,
     <<"f", "r", "o", "n", "t", "_", "b", "r", "a", "k", "e">> >>

throttlePatterns ==
  << <<"a", "p", "s">>,
     <<"t", "h", "r", "o", "t", "t", "l", "e">>,
     <<"a", "c", "c", "e", "l">>,
     <<"a", "c", "c", "e", "l", "e", "r", "a", "t", "o", "r">>,
     <<"g", "a", "s">> >>

columnMap(headers) ==
  [timestamp |-> findColumn(headers, timestampPatterns),
   Laptrigger_lapdist_dls |-> findColumn(headers, distancePatterns),
   Speed |-> findColumn(headers, speedPatterns),
   Steering_Angle |-> findColumn(headers, steeringPatterns),
   pbrake_f |-> findColumn(headers, brakePatterns),
   aps |-> findColumn(headers, throttlePatterns)]

\* A cell of a parsed CSV row is a number, null (an empty field) or a text
\* that is not a number.
Num(v) == [kind |-> "num", val |-> v]

Null == [kind |-> "null", val |-> 0]

Text == [kind |-> "text", val |-> 0]

\* Number(row[column || fallback]) || 0: NaN (a text, a missing key), null
\* and 0 all give 0
Field(row, column, fallback) ==
  LET key == IF Truthy(column) THEN column[1] ELSE fallback
  IN IF key \in DOMAIN row /\ row[key].kind = "num" THEN row[key].val ELSE 0

ParseRow(row, cm) ==
  [timestamp |-> Field(row, cm.timestamp, timestampPatterns[1]),
   Laptrigger_lapdist_dls |-> Field(row, cm.Laptrigger_lapdist_dls, distancePatterns[1]),
   Speed |-> Field(row, cm.Speed, speedPatterns[1]),
   Steering_Angle |-> Field(row, cm.Steering_Angle, steeringPatterns[1]),
   pbrake_f |-> Field(row, cm.pbrake_f, brakePatterns[1]),
   aps |-> Field(row, cm.aps, throttlePatterns[1])]

ParsedData(f) ==
  LET cm == columnMap(f.headers)
  IN [k \in 1..Len(f.rows) |-> ParseRow(f.rows[k], cm)]

\* variant: the whole file is sampled
SampleSize_All(n) == n

SampleSize(n) == IF n < 10 THEN n ELSE 10

\* lines 105-125; the sample is the first min(10, n) rows
LooksEmpty(parsedData) ==
  /\ Len(parsedData) > 0
  /\ LET samples == Slice(parsedData, 0, SampleSize(Len(parsedData)))
         hasValidTimestamps == \E k \in 1..Len(samples) : samples[k].timestamp > 0
         hasValidSpeeds == \E k \in 1..Len(samples) : samples[k].Speed > 0
         hasValidDistances == \E k \in 1..Len(samples) : samples[k].Laptrigger_lapdist_dls > 0
     IN ~hasValidTimestamps /\ ~hasValidSpeeds /\ ~hasValidDistances

\* ------------------------------------------------------------- formatLapTime
\* JavaScript numbers are IEEE 754 doubles.  A time of k whole milliseconds
\* reaches formatLapTime as the double nearest to k / 1000: an integer part
\* and a binary fraction, 53 significant bits in all, rounded half to even.
\* A fraction is the sequence of its bits, most significant first.
RECURSIVE BitLength(_)
BitLength(n) == IF n = 0 THEN 0 ELSE 1 + BitLength(n \div 2)

\* long division of rem / 1000 in base 2 until 53 significant bits are out
\* or the division ends; sig counts the significant bits so far
RECURSIVE FractionBits(_, _, _)
FractionBits(rem, sig, bits) ==
  IF sig >= 53 \/ rem = 0 THEN [bits |-> bits, rem |-> rem]
  ELSE LET b == (2 * rem) \div 1000
       IN FractionBits((2 * rem) % 1000,
                       IF sig > 0 \/ b = 1 THEN sig + 1 ELSE 0,
                       Append(bits, b))

\* add one unit in the last place; carry is 1 when every bit was 1
RECURSIVE Increment(_)
Increment(bits) ==
  IF bits = << >> THEN [bits |-> << >>, carry |-> 1]
  ELSE IF bits[Len(bits)] = 0
         THEN [bits |-> SubSeq(bits, 1, Len(bits) - 1) \o << 1 >>, carry |-> 0]
         ELSE LET up == Increment(SubSeq(bits, 1, Len(bits) - 1))
              IN [bits |-> up.bits \o << 0 >>, carry |-> up.carry]

\* the double nearest to k / 1000
ToDouble(k) ==
  LET whole == k \div 1000
      d == FractionBits(k % 1000, BitLength(whole), << >>)
      roundUp == \/ 2 * d.rem > 1000
                 \/ 2 * d.rem = 1000 /\ d.bits[Len(d.bits)] = 1
      up == Increment(d.bits)
  IN IF roundUp THEN [int |-> whole + up.carry, frac |-> up.bits]
                ELSE [int |-> whole, frac |-> d.bits]

\* (frac * 1000) before rounding: its integer part and its fraction bits
RECURSIVE TimesThousand(_, _, _)
TimesThousand(frac, carry, out) ==
  IF frac = << >> THEN [int |-> carry, frac |-> out]
  ELSE TimesThousand(SubSeq(frac, 1, Len(frac) - 1),
                     (1000 * frac[Len(frac)] + carry) \div 2,
                     << (1000 * frac[Len(frac)] + carry) % 2 >> \o out)

\* Math.floor((t % 1) * 1000): t % 1 is exact, the product is rounded to 53
\* significant bits, which carries into the integer part exactly when the
\* leading fraction bits down to the rounding bit are all 1
FloorTimesThousand(frac) ==
  LET p == TimesThousand(frac, 0, << >>)
      exponent == IF p.int >= 1 THEN BitLength(p.int) - 1 ELSE -1
      n == 53 - exponent
      carries == Len(p.frac) >= n /\ \A j \in 1..n : p.frac[j] = 1
  IN IF carries THEN p.int + 1 ELSE p.int

DigitChars == << "0", "1", "2", "3", "4", "5", "6", "7", "8", "9" >>

\* Number.prototype.toString of a non-negative integer
RECURSIVE toString(_)
toString(n) ==
  IF n < 10 THEN << DigitChars[n + 1] >>
  ELSE toString(n \div 10) \o << DigitChars[(n % 10) + 1] >>

RECURSIVE padStart(_, _, _)
padStart(str, targetLength, padChar) ==
  IF Len(str) >= targetLength THEN str
  ELSE padStart(<< padChar >> \o str, targetLength, padChar)

\* formatLapTime of the double nearest to k / 1000 seconds.  t / 60 and t % 60
\* cannot round across an integer for such t, so their floors are taken on
\* the integer part.
formatLapTime(k) ==
  LET timeInSeconds == ToDouble(k)
      minutes == timeInSeconds.int \div 60
      seconds == timeInSeconds.int % 60
      milliseconds == FloorTimesThousand(timeInSeconds.frac)
  IN toString(minutes) \o << ":" >> \o padStart(toString(seconds), 2, "0")
       \o << "." >> \o padStart(toString(milliseconds), 3, "0")

\* --------------------------------------------------------------- input files
\* The CSV file as Papa.parse delivers it: the header names and one row per
\* data line, a row being a function from header names to cells.
TelemetryHeaders ==
  << timestampPatterns[1], distancePatterns[1], speedPatterns[1],
     steeringPatterns[1], brakePatterns[1], throttlePatterns[1] >>

\* other header names a logger may use
AliasHeaders ==
  << <<"T", "i", "m", "e">>,
     <<"d", "i", "s", "t", "a", "n", "c", "e">>,
     <<"v", "e", "l", "o", "c", "i", "t", "y">>,
     <<"s", "t", "e", "e", "r">>,
     <<"b", "r", "a", "k", "e">>,
     <<"t", "h", "r", "o", "t", "t", "l", "e">> >>

\* the header of a results sheet
ResultsHeaders ==
  << <<"P", "O", "S", "I", "T", "I", "O", "N">>,
     <<"N", "U", "M", "B", "E", "R">>,
     <<"D", "R", "I", "V", "E", "R">>,
     <<"S", "T", "A", "T", "U", "S">>,
     <<"L", "A", "P", "S">>,
     <<"T", "O", "T", "A", "L", "_", "T", "I", "M", "E">> >>

\* results columns written in mixed case
MixedCaseResultsHeaders ==
  << <<"P", "o", "s", "i", "t", "i", "o", "n">>,
     <<"n", "u", "m", "b", "e", "r">>,
     <<"S", "t", "a", "t", "u", "s">> >>

ThreeResultsHeaders ==
  << <<"N", "U", "M", "B", "E", "R">>,
     <<"L", "A", "P", "S">>,
     <<"G", "A", "P", "_", "F", "I", "R", "S", "T">> >>

TwoResultsHeaders ==
  << <<"N", "U", "M", "B", "E", "R">>,
     <<"L", "A", "P", "S">> >>

\* the row of a logged sample under the six column names h; extra gives the
\* cells of any further columns
RawRow(r, h, extra) ==
  (h[1] :> Num(r.timestamp)) @@ (h[2] :> Num(r.Laptrigger_lapdist_dls)) @@
  (h[3] :> Num(r.Speed)) @@ (h[4] :> Num(r.Steering_Angle)) @@
  (h[5] :> Num(r.pbrake_f)) @@ (h[6] :> Num(r.aps)) @@ extra

RawRows(stream, h, extra) == [k \in 1..Len(stream) |-> RawRow(stream[k], h, extra)]

CsvFile(headers, rows) == [exists |-> TRUE, headers |-> headers, rows |-> rows]

MissingFile == [exists |-> FALSE, headers |-> << >>, rows |-> << >>]

TelemetryFile(stream) == CsvFile(TelemetryHeaders, RawRows(stream, TelemetryHeaders, << >>))

NoCells(headers) == [h \in { headers[k] : k \in 1..Len(headers) } |-> Null]

FullLap == RunsRows(SegFullA, 0)

\* a results sheet: three classified cars
ResultsFile ==
  CsvFile(ResultsHeaders,
          [k \in 1..3 |->
             (ResultsHeaders[1] :> Num(k)) @@ (ResultsHeaders[2] :> Num(10 * k)) @@
             (ResultsHeaders[3] :> Text) @@ (ResultsHeaders[4] :> Text) @@
             (ResultsHeaders[5] :> Num(20)) @@ (ResultsHeaders[6] :> Text)])

\* good telemetry rows under a header that also has three results columns,
\* spelled in mixed case
MixedFile ==
  CsvFile(MixedCaseResultsHeaders \o TelemetryHeaders,
          RawRows(FullLap, TelemetryHeaders, NoCells(MixedCaseResultsHeaders)))

\* good telemetry rows under a header that also has three results columns,
\* spelled as the indicators are
ThreeIndicatorFile ==
  CsvFile(ThreeResultsHeaders \o TelemetryHeaders,
          RawRows(FullLap, TelemetryHeaders, NoCells(ThreeResultsHeaders)))

\* good telemetry rows under a header that also has two results columns
TwoIndicatorFile ==
  CsvFile(TwoResultsHeaders \o TelemetryHeaders,
          RawRows(FullLap, TelemetryHeaders, NoCells(TwoResultsHeaders)))

AliasFile == CsvFile(AliasHeaders, RawRows(FullLap, AliasHeaders, << >>))

\* twelve rows without a number in them
BlankRows == [k \in 1..12 |-> [h \in { TelemetryHeaders[j] : j \in 1..6 } |->
                                 IF h = TelemetryHeaders[1] THEN Text ELSE Null]]

BlankFile == CsvFile(TelemetryHeaders, BlankRows)

\* the logger starts writing numbers at the eleventh row
LateFile ==
  CsvFile(TelemetryHeaders,
          Slice(BlankRows, 0, 10) \o RawRows(FullLap, TelemetryHeaders, << >>))

\* the logger starts writing numbers at the tenth row
LateFile9 ==
  CsvFile(TelemetryHeaders,
          Slice(BlankRows, 0, 9) \o RawRows(FullLap, TelemetryHeaders, << >>))

\* a speed column only
SpeedOnlyFile ==
  CsvFile(<< speedPatterns[1] >>, [k \in 1..12 |-> (speedPatterns[1] :> Num(100 + k))])

\* a lap for the zone scans: three samples on the brake at its start, one
\* on the throttle, four on the brake, five on the throttle, and on the brake
\* from there to its last sample
SegZones ==
  << Run(150, 3, 150, 2, 5, 0), Run(180, 1, 150, 2, 0, 9),
     Run(1500, 4, 140, 2, 5, 0), Run(2300, 5, 150, 2, 0, 9),
     Run(3600, 5, 120, 2, 5, 0) >>

ZoneLapFile == TelemetryFile(RunsRows(SegZones, 0))

\* the hesitant lap, and a lap that is 18 km/h slower over the same six
\* samples of the straight
SegSixSlow ==
  << Run(150, 6, 150, 2, 0, 9), Run(1560, 5, 145, 2, 5, 0),
     Run(3200, 5, 153, 2, 0, 9), Run(3600, 5, 100, 2, 0, 0) >>

SixSampleFile == TelemetryFile(RunsRows(SegFullC \o SegSixSlow, 0))

TwoZoneLapsFile == TelemetryFile(RunsRows(SegZones \o SegZones, 0))

Files ==
  { TelemetryFile(stream) : stream \in Streams } \cup
  { MissingFile, ResultsFile, MixedFile, ThreeIndicatorFile, TwoIndicatorFile, AliasFile,
    BlankFile, LateFile, LateFile9, SpeedOnlyFile, ZoneLapFile, TwoZoneLapsFile,
    SixSampleFile }

\* ---------------------------------------------------------------- the state
VARIABLES
  probe,            \* a single call of an exported or helper function
  file,             \* the CSV file of the track, as read from disk
  data,             \* telemetryData: the parsed rows, << >> until parsed
  pc,               \* position inside synthesizePerfectLap
  outcome,          \* "running", "ok" or the error raised
  i,                \* detectLaps: loop index
  currentLapStart,  \* detectLaps: cursor
  lapNumber,        \* detectLaps: next lap number
  laps,             \* detectLaps: retained laps
  sIdx,             \* synthesizePerfectLap: position in COTA_SECTORS (1-based)
  bestSectors,
  sectorStats,
  theoreticalTime,
  chartData,
  consistency,        \* ConsistencyMetrics, << >> until computed
  brakingZones,
  accelerationZones,
  corners,
  sdK,                \* analyzeSpeedDeficits: position in bestSectors (1-based)
  sdI,                \* analyzeSpeedDeficits: index i of the sampling loop
  sdIter,             \* iterations of the sampling loop made for this sector
  speedDeficits,
  improvementAreas,
  sessionId,          \* ChatInterface: the sessionId prop
  messages,           \* ChatInterface: the displayed message list
  input,              \* ChatInterface: the text of the input field
  isLoading,          \* ChatInterface: a send is in progress
  streamingMessage,   \* ChatInterface: the reply shown while it streams
  historyPc,          \* position of loadChatHistory
  sendPc,             \* position of handleSend
  accumulatedText,    \* handleSend: the chunks read so far
  appended            \* the messages handleSend has appended, in order

chatVars ==
  << sessionId, messages, input, isLoading, streamingMessage, historyPc, sendPc,
     accumulatedText, appended >>

vars ==
  << probe, file, data, pc, outcome, i, currentLapStart, lapNumber, laps, sIdx,
     bestSectors, sectorStats, theoreticalTime, chartData,
     consistency, brakingZones, accelerationZones, corners,
     sdK, sdI, sdIter, speedDeficits, improvementAreas, chatVars >>

detectVars == << i, currentLapStart, lapNumber, laps >>

synthVars == << sIdx, bestSectors, sectorStats, theoreticalTime, chartData >>

zoneVars == << consistency, brakingZones, accelerationZones, corners >>

deficitVars == << sdK, sdI, sdIter, speedDeficits >>

analysisVars == << zoneVars, deficitVars, improvementAreas >>

\* no function has been called on its own
NoProbe == [fn |-> "none"]

EngineInit(f, at) ==
  /\ file = f
  /\ data = << >>
  /\ pc = at
  /\ outcome = "running"
  /\ i = 1
  /\ currentLapStart = 0
  /\ lapNumber = 1
  /\ laps = <<>>
  /\ sIdx = 1
  /\ bestSectors = <<>>
  /\ sectorStats = <<>>
  /\ theoreticalTime = 0
  /\ chartData = <<>>
  /\ consistency = <<>>
  /\ brakingZones = <<>>
  /\ accelerationZones = <<>>
  /\ corners = <<>>
  /\ sdK = 1
  /\ sdI = 0
  /\ sdIter = 0
  /\ speedDeficits = <<>>
  /\ improvementAreas = <<>>

\* sessionId is null until an analysis has been stored
NoSession == "null"

\* useState initial values, lines 22-26; nothing is in flight
ChatInit(id) ==
  /\ sessionId = id
  /\ messages = << >>
  /\ input = << >>
  /\ isLoading = FALSE
  /\ streamingMessage = << >>
  /\ historyPc = "unmounted"
  /\ sendPc = "idle"
  /\ accumulatedText = << >>
  /\ appended = << >>

Init ==
  /\ probe = NoProbe
  /\ ChatInit(NoSession)
  /\ \E f \in Files : EngineInit(f, "start")

\* ------------------------------------------------------------ error raising
Fail(kind) ==
  /\ pc' = "failed"
  /\ outcome' = kind

\* synthesizePerfectLap, lines 532-536
OpenFile ==
  /\ pc = "start"
  /\ IF ~file.exists
       THEN Fail("FileNotFound")
       ELSE pc' = "headers" /\ outcome' = outcome
  /\ UNCHANGED << chatVars, probe, file, data, detectVars, synthVars, analysisVars >>

\* parseTelemetryCSV, lines 43-58: the results-sheet test on the header row
CheckHeaders ==
  /\ pc = "headers"
  /\ IF IsRaceResults(file.headers)
       THEN Fail("WrongFileKind")
       ELSE pc' = "rows" /\ outcome' = outcome
  /\ UNCHANGED << chatVars, probe, file, data, detectVars, synthVars, analysisVars >>

\* parseTelemetryCSV, lines 60-141: column mapping, coercion and the
\* plausibility test; on success telemetryData is assigned
ParseRows ==
  /\ pc = "rows"
  /\ LET parsedData == ParsedData(file)
     IN IF LooksEmpty(parsedData)
          THEN Fail("EmptyOrInvalidData") /\ UNCHANGED data
          ELSE pc' = "loaded" /\ outcome' = outcome /\ data' = parsedData
  /\ UNCHANGED << chatVars, probe, file, detectVars, synthVars, analysisVars >>

\* variant: an empty row list is passed on to detectLaps
NoData_Never(telemetryData) == FALSE

NoData(telemetryData) == Len(telemetryData) = 0

\* synthesizePerfectLap, lines 538-542
CheckData ==
  /\ pc = "loaded"
  /\ IF NoData(data)
       THEN Fail("NoTelemetryData")
       ELSE pc' = "detect" /\ outcome' = outcome
  /\ UNCHANGED << chatVars, probe, file, data, detectVars, synthVars, analysisVars >>

\* --------------------------------------------------------------- detectLaps
\* variant: any drop of the distance counts as a reset
IsLapReset_AnyDrop(prevDistance, currDistance) == currDistance < prevDistance

IsLapReset(prevDistance, currDistance) ==
  prevDistance > LAP_RESET_HIGH_THRESHOLD /\ currDistance < LAP_RESET_LOW_THRESHOLD

\* variant: the noise filter is missing
RetainLap_Always(lapData) == TRUE

RetainLap(lapData) == Len(lapData) > 10

\* variant: endIndex is the index of the reset sample
MakeLap_EndAtReset(number, startIndex, endIndex, lapData) ==
  [lapNumber |-> number,
   startIndex |-> startIndex,
   endIndex |-> endIndex + 1,
   data |-> lapData,
   lapTime |-> lapData[Len(lapData)].timestamp - lapData[1].timestamp]

MakeLap(number, startIndex, endIndex, lapData) ==
  [lapNumber |-> number,
   startIndex |-> startIndex,
   endIndex |-> endIndex,
   data |-> lapData,
   lapTime |-> lapData[Len(lapData)].timestamp - lapData[1].timestamp]

\* one iteration of the for loop
DetectStep ==
  /\ pc = "detect"
  /\ i < Len(data)
  /\ IF IsLapReset(At(data, i - 1).Laptrigger_lapdist_dls,
                   At(data, i).Laptrigger_lapdist_dls)
       THEN LET lapData == Slice(data, currentLapStart, i)
            IN /\ IF RetainLap(lapData)
                    THEN /\ laps' = Append(laps,
                                      MakeLap(lapNumber, currentLapStart, i - 1, lapData))
                         /\ lapNumber' = lapNumber + 1
                    ELSE UNCHANGED << laps, lapNumber >>
               /\ currentLapStart' = i
       ELSE UNCHANGED << laps, lapNumber, currentLapStart >>
  /\ i' = i + 1
  /\ UNCHANGED << chatVars, probe, file, data, pc, outcome, synthVars, analysisVars >>

\* the code after the loop: the trailing range
DetectTail ==
  /\ pc = "detect"
  /\ i >= Len(data)
  /\ IF currentLapStart < Len(data) - 1
       THEN LET lapData == Slice(data, currentLapStart, Len(data))
            IN IF RetainLap(lapData)
                 THEN laps' = Append(laps,
                                MakeLap(lapNumber, currentLapStart, Len(data) - 1, lapData))
                 ELSE UNCHANGED laps
       ELSE UNCHANGED laps
  /\ pc' = "detected"
  /\ UNCHANGED << chatVars, probe, file, data, outcome, i, currentLapStart, lapNumber, synthVars, analysisVars >>

\* variant: the empty lap list is not rejected
NoLaps_Never(ls) == FALSE

NoLaps(ls) == Len(ls) = 0

\* synthesizePerfectLap, lines 544-548
CheckLaps ==
  /\ pc = "detected"
  /\ IF NoLaps(laps)
       THEN Fail("NoLapsDetected")
       ELSE pc' = "synth" /\ outcome' = outcome
  /\ UNCHANGED << chatVars, probe, file, data, detectVars, synthVars, analysisVars >>

\* ------------------------------------------------------------ extractSector
\* variant: the end of a sector belongs to it
InSector_Closed(distance, sectorDef) ==
  /\ distance >= sectorDef.start
  /\ (sectorDef.end = Infinity \/ distance <= sectorDef.end)

InSector(distance, sectorDef) ==
  /\ distance >= sectorDef.start
  /\ (sectorDef.end = Infinity \/ distance < sectorDef.end)

SectorRows(rows, sectorDef) ==
  SelectSeq(rows, LAMBDA row : InSector(row.Laptrigger_lapdist_dls, sectorDef))

\* Sector | null as a sequence of length 1 or 0
extractSector(lap, sectorDef) ==
  LET sectorData == SectorRows(lap.data, sectorDef)
  IN IF Len(sectorData) < 2
       THEN <<>>
       ELSE << [name |-> sectorDef.name,
                distanceStart |-> sectorDef.start,
                distanceEnd |-> sectorDef.end,
                time |-> sectorData[Len(sectorData)].timestamp - sectorData[1].timestamp,
                data |-> sectorData,
                lapNumber |-> lap.lapNumber,
                maxSpeed |-> MaxSeq(Speeds(sectorData))] >>

\* variant: the straight is not exempt
isCornerSector_All(sectorName) == TRUE

isCornerSector(sectorName) == sectorName # "S1"

\* variant: the drafting filter is missing
isDrafting_Off(sector) == FALSE

isDrafting(sector) ==
  sector.maxSpeed > DRAFTING_SPEED_THRESHOLD /\ isCornerSector(sector.name)

\* ------------------------------------------------- synthesizePerfectLap body
\* variant: a later lap replaces the best on equal time
RECURSIVE BestOver_LastWins(_, _, _)
BestOver_LastWins(ls, sectorDef, bestSector) ==
  IF ls = <<>> THEN bestSector
  ELSE LET sector == extractSector(Head(ls), sectorDef)
       IN IF sector = <<>> \/ isDrafting(sector[1])
            THEN BestOver_LastWins(Tail(ls), sectorDef, bestSector)
            ELSE IF bestSector = <<>> \/ sector[1].time <= bestSector[1].time
                   THEN BestOver_LastWins(Tail(ls), sectorDef, sector)
                   ELSE BestOver_LastWins(Tail(ls), sectorDef, bestSector)

\* the inner loop over laps, lines 556-566
RECURSIVE BestOver(_, _, _)
BestOver(ls, sectorDef, bestSector) ==
  IF ls = <<>> THEN bestSector
  ELSE LET sector == extractSector(Head(ls), sectorDef)
       IN IF sector = <<>> \/ isDrafting(sector[1])
            THEN BestOver(Tail(ls), sectorDef, bestSector)
            ELSE IF bestSector = <<>> \/ sector[1].time < bestSector[1].time
                   THEN BestOver(Tail(ls), sectorDef, sector)
                   ELSE BestOver(Tail(ls), sectorDef, bestSector)

\* variant: the second pass keeps the drafting-affected instances
RECURSIVE AllSectorTimes_Unfiltered(_, _)
AllSectorTimes_Unfiltered(ls, sectorDef) ==
  IF ls = <<>> THEN <<>>
  ELSE LET s == extractSector(Head(ls), sectorDef)
       IN (IF s # <<>> THEN << s[1].time >> ELSE <<>>)
            \o AllSectorTimes_Unfiltered(Tail(ls), sectorDef)

\* lines 571-574: the times of the instances kept by the second pass
RECURSIVE AllSectorTimes(_, _)
AllSectorTimes(ls, sectorDef) ==
  IF ls = <<>> THEN <<>>
  ELSE LET s == extractSector(Head(ls), sectorDef)
       IN (IF s # <<>> /\ ~isDrafting(s[1]) THEN << s[1].time >> ELSE <<>>)
            \o AllSectorTimes(Tail(ls), sectorDef)

\* variant: the gap between the slowest kept instance and the best
TimeGain_WorstMinusBest(allSectorTimes, bestSector) ==
  [num |-> MaxSeq(allSectorTimes) - bestSector.time, den |-> 1]

\* lines 576-577: avgTime - bestSector.time, as a fraction
TimeGain(allSectorTimes, bestSector) ==
  [num |-> SumSeq(allSectorTimes) - Len(allSectorTimes) * bestSector.time,
   den |-> Len(allSectorTimes)]

MakeStat(bestSector, allSectorTimes) ==
  [sectorName |-> bestSector.name,
   bestTime |-> bestSector.time,
   lapNumber |-> bestSector.lapNumber,
   timeGain |-> TimeGain(allSectorTimes, bestSector),
   avgSpeed |-> [num |-> SumSeq(Speeds(bestSector.data)),
                 den |-> Len(bestSector.data)]]

\* variant: unshift instead of push
Push_Front(list, x) == << x >> \o list

\* Array.prototype.push
Push(list, x) == Append(list, x)

\* variant: the rows of the sector are moved out of lap.data, as splice does
AfterFilter_InPlace(lap, sectorDef) ==
  [lap EXCEPT !.data =
     SelectSeq(lap.data, LAMBDA row : ~InSector(row.Laptrigger_lapdist_dls, sectorDef))]

\* lap.data.filter(...) at lines 200-205 returns a new array: the lap that
\* extractSector was given is as it was
AfterFilter(lap, sectorDef) == lap

\* one iteration of the loop over COTA_SECTORS, lines 553-590
SynthSector ==
  /\ pc = "synth"
  /\ sIdx <= Len(COTA_SECTORS)
  /\ LET sectorDef == COTA_SECTORS[sIdx]
         bestSector == BestOver(laps, sectorDef, <<>>)
     IN IF bestSector # <<>>
          THEN /\ bestSectors' = Push(bestSectors, bestSector[1])
               /\ sectorStats' = Push(sectorStats,
                     MakeStat(bestSector[1], AllSectorTimes(laps, sectorDef)))
          ELSE UNCHANGED << bestSectors, sectorStats >>
  /\ sIdx' = sIdx + 1
  /\ laps' = [k \in 1..Len(laps) |-> AfterFilter(laps[k], COTA_SECTORS[sIdx])]
  /\ UNCHANGED << chatVars, probe, file, data, pc, outcome, i, currentLapStart, lapNumber,
                  theoreticalTime, chartData, analysisVars >>

\* variant: the last winning sector is left out of the sum
TheoreticalTime_DropLast(sectors) == SumSeq(Times(SubSeq(sectors, 1, Len(sectors) - 1)))

TheoreticalTime(sectors) == SumSeq(Times(sectors))

ChartRows(sector) ==
  [k \in 1..Len(sector.data) |->
     [distance |-> sector.data[k].Laptrigger_lapdist_dls,
      speed |-> sector.data[k].Speed,
      sector |-> sector.name]]

RECURSIVE ChartData(_)
ChartData(sectors) ==
  IF sectors = <<>> THEN <<>>
  ELSE ChartRows(Head(sectors)) \o ChartData(Tail(sectors))

\* lines 592-608
Assemble ==
  /\ pc = "synth"
  /\ sIdx > Len(COTA_SECTORS)
  /\ IF Len(bestSectors) = 0
       THEN /\ Fail("NoValidSectors")
            /\ UNCHANGED << theoreticalTime, chartData >>
       ELSE /\ theoreticalTime' = TheoreticalTime(bestSectors)
            /\ chartData' = ChartData(bestSectors)
            /\ pc' = "consistency"
            /\ outcome' = outcome
  /\ UNCHANGED << chatVars, probe, file, data, detectVars, sIdx, bestSectors, sectorStats, analysisVars >>

\* -------------------------------------------------------- analyzeConsistency
\* floor of the square root (Math.sqrt on fixed-point values)
RECURSIVE SqrtBetween(_, _, _)
SqrtBetween(n, lo, hi) ==
  IF lo >= hi THEN lo
  ELSE LET mid == (lo + hi + 1) \div 2
       IN IF mid * mid <= n THEN SqrtBetween(n, mid, hi)
                            ELSE SqrtBetween(n, lo, mid - 1)

Sqrt(n) == SqrtBetween(n, 0, 46340)

\* variant: the lower clamp is missing
Clamp_NoFloor(score) == IF score < 10000 THEN score ELSE 10000

\* Math.max(0, Math.min(100, score)), score in hundredths of a point
Clamp(score) ==
  LET capped == IF score < 10000 THEN score ELSE 10000
  IN IF capped > 0 THEN capped ELSE 0

\* variant: the sample variance
Variance_Sample(deviations) ==
  IF Len(deviations) = 1 THEN 0
  ELSE SumSeq([k \in 1..Len(deviations) |-> deviations[k] * deviations[k]])
         \div (Len(deviations) - 1)

\* the mean of the squared deviations, line 241-242
Variance(deviations) ==
  SumSeq([k \in 1..Len(deviations) |-> deviations[k] * deviations[k]])
    \div Len(deviations)

\* Lap times are tenths of a second.  avgC, stdDeviation and the deviations
\* are in thousandths of a second, consistencyScore in hundredths of a
\* point: 100 - stdDeviation[s] * 10 is 10000 - stdDeviation[ms].
analyzeConsistency(ls) ==
  LET lapTimes == [k \in 1..Len(ls) |-> ls[k].lapTime]
      n == Len(lapTimes)
      avgC == (100 * SumSeq(lapTimes)) \div n
      bestLapTime == MinSeq(lapTimes)
      worstLapTime == MaxSeq(lapTimes)
      variance == Variance([k \in 1..n |-> 100 * lapTimes[k] - avgC])
      stdDeviation == Sqrt(variance)
  IN [avgLapTime |-> [num |-> SumSeq(lapTimes), den |-> n],
      bestLapTime |-> bestLapTime,
      worstLapTime |-> worstLapTime,
      stdDeviation |-> stdDeviation,
      lapTimeVariation |-> [k \in 1..n |-> lapTimes[k] - bestLapTime],
      consistencyScore |-> Clamp(10000 - stdDeviation)]

AnalyzeConsistency ==
  /\ pc = "consistency"
  /\ consistency' = << analyzeConsistency(laps) >>
  /\ pc' = "braking"
  /\ UNCHANGED << chatVars, probe, file, data, outcome, detectVars, synthVars, brakingZones,
                  accelerationZones, corners, deficitVars, improvementAreas >>

\* ------------------------------------- analyzeBrakingZones, analyzeAccelerationZones
FindSector(distance) ==
  LET hits == SelectSeq(COTA_SECTORS, LAMBDA s : InSector(distance, s))
  IN IF hits = <<>> THEN "Unknown" ELSE hits[1].name

isBraking(row) == row.pbrake_f > 3

isAccelerating(row) == row.aps > 7 /\ row.pbrake_f < 1

\* variant: three samples are enough
CommitZone_Three(zoneLength) == zoneLength >= 3

CommitZone(zoneLength) == zoneLength > 3

\* the two scans differ in the activity test and in the channel averaged
Active(kind, row) == IF kind = "braking" THEN isBraking(row) ELSE isAccelerating(row)

Level(kind, row) == IF kind = "braking" THEN row.pbrake_f ELSE row.aps

\* the zone pushed for lap.data.slice(zoneStartIndex, i)
MakeZone(lap, zoneStartIndex, k, kind) ==
  LET zoneData == Slice(lap.data, zoneStartIndex, k)
      distance == At(zoneData, Len(zoneData) \div 2).Laptrigger_lapdist_dls
  IN [sector |-> FindSector(distance),
      distance |-> distance,
      entrySpeed |-> zoneData[1].Speed,
      exitSpeed |-> zoneData[Len(zoneData)].Speed,
      avg |-> [num |-> SumSeq([j \in 1..Len(zoneData) |-> Level(kind, zoneData[j])]),
               den |-> Len(zoneData)],
      lapNumber |-> lap.lapNumber]

\* variant: a zone that is active at the last sample is closed there
RECURSIVE ScanZones_FlushAtEnd(_, _, _, _, _)
ScanZones_FlushAtEnd(lap, k, inZone, zoneStartIndex, kind) ==
  IF k >= Len(lap.data)
    THEN IF inZone /\ CommitZone(k - zoneStartIndex)
           THEN << MakeZone(lap, zoneStartIndex, k, kind) >>
           ELSE <<>>
  ELSE LET on == Active(kind, At(lap.data, k))
       IN IF on /\ ~inZone
            THEN ScanZones_FlushAtEnd(lap, k + 1, TRUE, k, kind)
            ELSE IF ~on /\ inZone
                   THEN (IF CommitZone(k - zoneStartIndex)
                           THEN << MakeZone(lap, zoneStartIndex, k, kind) >>
                           ELSE <<>>)
                        \o ScanZones_FlushAtEnd(lap, k + 1, FALSE, zoneStartIndex, kind)
                   ELSE ScanZones_FlushAtEnd(lap, k + 1, inZone, zoneStartIndex, kind)

\* the scan of one lap from index k on, with the loop's two locals
RECURSIVE ScanZones(_, _, _, _, _)
ScanZones(lap, k, inZone, zoneStartIndex, kind) ==
  IF k >= Len(lap.data) THEN <<>>
  ELSE LET on == Active(kind, At(lap.data, k))
       IN IF on /\ ~inZone
            THEN ScanZones(lap, k + 1, TRUE, k, kind)
            ELSE IF ~on /\ inZone
                   THEN (IF CommitZone(k - zoneStartIndex)
                           THEN << MakeZone(lap, zoneStartIndex, k, kind) >>
                           ELSE <<>>)
                        \o ScanZones(lap, k + 1, FALSE, zoneStartIndex, kind)
                   ELSE ScanZones(lap, k + 1, inZone, zoneStartIndex, kind)

RECURSIVE analyzeBrakingZones(_)
analyzeBrakingZones(ls) ==
  IF ls = <<>> THEN <<>>
  ELSE ScanZones(Head(ls), 0, FALSE, 0, "braking") \o analyzeBrakingZones(Tail(ls))

RECURSIVE analyzeAccelerationZones(_)
analyzeAccelerationZones(ls) ==
  IF ls = <<>> THEN <<>>
  ELSE ScanZones(Head(ls), 0, FALSE, 0, "accel") \o analyzeAccelerationZones(Tail(ls))

AnalyzeBrakingZones ==
  /\ pc = "braking"
  /\ brakingZones' = analyzeBrakingZones(laps)
  /\ pc' = "accel"
  /\ UNCHANGED << chatVars, probe, file, data, outcome, detectVars, synthVars, consistency,
                  accelerationZones, corners, deficitVars, improvementAreas >>

AnalyzeAccelerationZones ==
  /\ pc = "accel"
  /\ accelerationZones' = analyzeAccelerationZones(laps)
  /\ pc' = "corners"
  /\ UNCHANGED << chatVars, probe, file, data, outcome, detectVars, synthVars, consistency,
                  brakingZones, corners, deficitVars, improvementAreas >>

\* ------------------------------------------------------------ analyzeCorners
\* sectorData.reduce((min, row) => row.Speed < min.Speed ? row : min)
RECURSIVE MinSpeedRow(_, _)
MinSpeedRow(rows, min) ==
  IF rows = <<>> THEN min
  ELSE MinSpeedRow(Tail(rows), IF Head(rows).Speed < min.Speed THEN Head(rows) ELSE min)

RECURSIVE LapCorners(_, _)
LapCorners(lap, defs) ==
  IF defs = <<>> THEN <<>>
  ELSE LET sectorDef == Head(defs)
           sectorData == SectorRows(lap.data, sectorDef)
           minSpeedRow == MinSpeedRow(Tail(sectorData), Head(sectorData))
       IN (IF Len(sectorData) < 5 THEN <<>>
           ELSE << [sector |-> sectorDef.name,
                    distance |-> minSpeedRow.Laptrigger_lapdist_dls,
                    minSpeed |-> minSpeedRow.Speed,
                    lapNumber |-> lap.lapNumber,
                    entrySpeed |-> sectorData[1].Speed,
                    exitSpeed |-> sectorData[Len(sectorData)].Speed] >>)
          \o LapCorners(lap, Tail(defs))

RECURSIVE analyzeCorners(_)
analyzeCorners(ls) ==
  IF ls = <<>> THEN <<>>
  ELSE LapCorners(Head(ls), COTA_SECTORS) \o analyzeCorners(Tail(ls))

AnalyzeCorners ==
  /\ pc = "corners"
  /\ corners' = analyzeCorners(laps)
  /\ pc' = "deficits"
  /\ UNCHANGED << chatVars, probe, file, data, outcome, detectVars, synthVars, consistency,
                  brakingZones, accelerationZones, deficitVars, improvementAreas >>

\* ------------------------------------------------------ analyzeSpeedDeficits
SectorDefOf(name) == SelectSeq(COTA_SECTORS, LAMBDA s : s.name = name)

\* lines 385-397: the speed sequences of the laps that have rows in the sector
RECURSIVE AllSectorSpeeds(_, _)
AllSectorSpeeds(ls, sectorDef) ==
  IF ls = <<>> THEN <<>>
  ELSE LET sectorData == SectorRows(Head(ls).data, sectorDef)
       IN (IF Len(sectorData) > 0 THEN << Speeds(sectorData) >> ELSE <<>>)
            \o AllSectorSpeeds(Tail(ls), sectorDef)

MinLength(allSectorSpeeds) ==
  MinSeq([k \in 1..Len(allSectorSpeeds) |-> Len(allSectorSpeeds[k])])

\* the increment of the sampling loop: Math.floor(minLength / 5)
SampleStep(minLength) == minLength \div 5

\* the body of the sampling loop at index idx: the deficit pushed, if any
DeficitAt(allSectorSpeeds, bestSector, sectorDef, idx) ==
  LET speedsAtPoint == [k \in 1..Len(allSectorSpeeds) |-> At(allSectorSpeeds[k], idx)]
      n == Len(speedsAtPoint)
      bestSpeed == MaxSeq(speedsAtPoint)
      lossNum == bestSpeed * n - SumSeq(speedsAtPoint)
      last == Len(bestSector.data) - 1
      rowDistance == At(bestSector.data, IF idx < last THEN idx ELSE last).Laptrigger_lapdist_dls
      distance == IF rowDistance # 0 THEN rowDistance ELSE sectorDef.start
  IN IF lossNum > 5 * n
       THEN << [sector |-> bestSector.name,
                distance |-> distance,
                speedLoss |-> [num |-> lossNum, den |-> n],
                bestSpeed |-> bestSpeed,
                avgSpeed |-> [num |-> SumSeq(speedsAtPoint), den |-> n]] >>
       ELSE <<>>

CurrentDef == SectorDefOf(bestSectors[sdK].name)[1]

CurrentSpeeds == AllSectorSpeeds(laps, CurrentDef)

\* head of the loop over bestSectors, lines 381-401
DeficitEnter ==
  /\ pc = "deficits"
  /\ sdK <= Len(bestSectors)
  /\ IF SectorDefOf(bestSectors[sdK].name) = <<>> \/ Len(CurrentSpeeds) < 2
       THEN /\ sdK' = sdK + 1
            /\ UNCHANGED << pc, sdI, sdIter >>
       ELSE /\ pc' = "sampling"
            /\ sdI' = 0
            /\ sdIter' = 0
            /\ UNCHANGED sdK
  /\ UNCHANGED << chatVars, probe, file, data, outcome, detectVars, synthVars, zoneVars,
                  speedDeficits, improvementAreas >>

\* one iteration of the sampling loop, lines 403-423; sdIter counts the
\* iterations and the model follows at most MaxIter of them
DeficitSample ==
  /\ pc = "sampling"
  /\ sdI < MinLength(CurrentSpeeds)
  /\ sdIter < MaxIter
  /\ speedDeficits' =
       speedDeficits \o DeficitAt(CurrentSpeeds, bestSectors[sdK], CurrentDef, sdI)
  /\ sdI' = sdI + SampleStep(MinLength(CurrentSpeeds))
  /\ sdIter' = sdIter + 1
  /\ UNCHANGED << chatVars, probe, file, data, pc, outcome, detectVars, synthVars, zoneVars,
                  sdK, improvementAreas >>

\* the sampling loop ends, next best sector
DeficitNext ==
  /\ pc = "sampling"
  /\ sdI >= MinLength(CurrentSpeeds)
  /\ sdK' = sdK + 1
  /\ pc' = "deficits"
  /\ UNCHANGED << chatVars, probe, file, data, outcome, detectVars, synthVars, zoneVars,
                  sdI, sdIter, speedDeficits, improvementAreas >>

\* analyzeSpeedDeficits returns
DeficitsDone ==
  /\ pc = "deficits"
  /\ sdK > Len(bestSectors)
  /\ pc' = "rank"
  /\ UNCHANGED << chatVars, probe, file, data, outcome, detectVars, synthVars, zoneVars,
                  deficitVars, improvementAreas >>

\* -------------------------------------------------- identifyImprovementAreas
\* a timeLoss is a fraction of seconds (or of the severity unit)
Item(area, sector, lossNum, lossDen, priority) ==
  [area |-> area, sector |-> sector,
   timeLoss |-> [num |-> lossNum, den |-> lossDen], priority |-> priority]

\* variant: the bounds 0.3 and 0.15 are inclusive
PacePriority_Inclusive(timeGain) ==
  IF timeGain.num >= 3 * timeGain.den THEN "high"
  ELSE IF 2 * timeGain.num >= 3 * timeGain.den THEN "medium" ELSE "low"

\* stat.timeGain > 0.3 ? 'high' : stat.timeGain > 0.15 ? 'medium' : 'low',
\* timeGain in tenths of a second
PacePriority(timeGain) ==
  IF timeGain.num > 3 * timeGain.den THEN "high"
  ELSE IF 2 * timeGain.num > 3 * timeGain.den THEN "medium" ELSE "low"

\* lines 439-455
RECURSIVE PaceItems(_)
PaceItems(stats) ==
  IF stats = <<>> THEN <<>>
  ELSE LET stat == Head(stats)
       IN (IF stat.timeGain.num > stat.timeGain.den
             THEN << Item("Pace", stat.sectorName, stat.timeGain.num,
                          10 * stat.timeGain.den, PacePriority(stat.timeGain)) >>
             ELSE <<>>)
          \o PaceItems(Tail(stats))

\* lines 457-466
ConsistencyItems(cons) ==
  IF cons.consistencyScore < 7000
    THEN << Item("Consistency", "All", cons.stdDeviation, 1000, "high") >>
    ELSE <<>>

\* `${sector}-${Math.floor(distance / 100) * 100}`
GroupKey(entry) == << entry.sector, (entry.distance \div 100) * 100 >>

\* the keys of a Map or object in insertion order
RECURSIVE KeysInOrder(_, _)
KeysInOrder(entries, seen) ==
  IF entries = <<>> THEN seen
  ELSE LET key == GroupKey(Head(entries))
       IN KeysInOrder(Tail(entries),
                      IF \E k \in 1..Len(seen) : seen[k] = key
                        THEN seen ELSE Append(seen, key))

Group(entries, key) == SelectSeq(entries, LAMBDA e : GroupKey(e) = key)

\* lines 477-491, for one key
BrakingItem(key, zones) ==
  LET distances == [k \in 1..Len(zones) |-> zones[k].distance]
      variance == MaxSeq(distances) - MinSeq(distances)
  IN IF Len(distances) >= 2 /\ variance > 30
       THEN << Item("Braking Consistency", key[1], variance, 100, "medium") >>
       ELSE <<>>

\* variant: the deficit is best minus worst
CornerItem_Spread(cornerGroup) ==
  LET minSpeeds == [k \in 1..Len(cornerGroup) |-> cornerGroup[k].minSpeed]
      speedDeficit == MaxSeq(minSpeeds) - MinSeq(minSpeeds)
  IN IF Len(minSpeeds) >= 2 /\ speedDeficit > 3
       THEN << Item("Corner Speed", cornerGroup[1].sector, speedDeficit, 50,
                    IF speedDeficit > 8 THEN "high" ELSE "medium") >>
       ELSE <<>>

\* lines 500-518, for one group
CornerItem(cornerGroup) ==
  LET minSpeeds == [k \in 1..Len(cornerGroup) |-> cornerGroup[k].minSpeed]
      n == Len(minSpeeds)
      deficitNum == MaxSeq(minSpeeds) * n - SumSeq(minSpeeds)
  IN IF n >= 2 /\ deficitNum > 3 * n
       THEN << Item("Corner Speed", cornerGroup[1].sector, deficitNum, 50 * n,
                    IF deficitNum > 8 * n THEN "high" ELSE "medium") >>
       ELSE <<>>

RECURSIVE BrakingItems(_, _)
BrakingItems(keys, zones) ==
  IF keys = <<>> THEN <<>>
  ELSE BrakingItem(Head(keys), Group(zones, Head(keys))) \o BrakingItems(Tail(keys), zones)

RECURSIVE CornerItems(_, _)
CornerItems(keys, cs) ==
  IF keys = <<>> THEN <<>>
  ELSE CornerItem(Group(cs, Head(keys))) \o CornerItems(Tail(keys), cs)

priorityOrder(priority) ==
  IF priority = "high" THEN 0 ELSE IF priority = "medium" THEN 1 ELSE 2

\* variant: equal priorities are ordered by ascending timeLoss
Compare_LossAscending(a, b) ==
  IF priorityOrder(a.priority) # priorityOrder(b.priority)
    THEN priorityOrder(a.priority) - priorityOrder(b.priority)
    ELSE a.timeLoss.num * b.timeLoss.den - b.timeLoss.num * a.timeLoss.den

\* the comparator of improvements.sort: negative when a goes first
Compare(a, b) ==
  IF priorityOrder(a.priority) # priorityOrder(b.priority)
    THEN priorityOrder(a.priority) - priorityOrder(b.priority)
    ELSE b.timeLoss.num * a.timeLoss.den - a.timeLoss.num * b.timeLoss.den

\* Array.prototype.sort is stable: x goes behind every element it does not
\* strictly precede
RECURSIVE InsertSorted(_, _)
InsertSorted(x, sorted) ==
  IF sorted = <<>> THEN << x >>
  ELSE IF Compare(x, Head(sorted)) < 0
         THEN << x >> \o sorted
         ELSE << Head(sorted) >> \o InsertSorted(x, Tail(sorted))

RECURSIVE SortItems(_, _)
SortItems(items, sorted) ==
  IF items = <<>> THEN sorted
  ELSE SortItems(Tail(items), InsertSorted(Head(items), sorted))

\* improvements.slice(0, 8)
\* variant: only the first call in the process cuts the list
Truncate_FirstCallOnly(items) ==
  IF probe = NoProbe THEN SubSeq(items, 1, IF Len(items) < 8 THEN Len(items) ELSE 8) ELSE items

Truncate(items) == SubSeq(items, 1, IF Len(items) < 8 THEN Len(items) ELSE 8)

\* the list before sorting, lines 437-518
Improvements(stats, cons, bZones, cs) ==
  PaceItems(stats) \o ConsistencyItems(cons)
    \o BrakingItems(KeysInOrder(bZones, <<>>), bZones)
    \o CornerItems(KeysInOrder(cs, <<>>), cs)

identifyImprovementAreas(stats, cons, bZones, cs) ==
  Truncate(SortItems(Improvements(stats, cons, bZones, cs), <<>>))

\* lines 615-635: rank and return the result
Rank ==
  /\ pc = "rank"
  /\ improvementAreas' =
       identifyImprovementAreas(sectorStats, consistency[1], brakingZones, corners)
  /\ pc' = "done"
  /\ outcome' = "ok"
  /\ UNCHANGED << chatVars, probe, file, data, detectVars, synthVars, zoneVars, deficitVars >>

Next ==
  \/ OpenFile
  \/ CheckHeaders
  \/ ParseRows
  \/ CheckData
  \/ DetectStep
  \/ DetectTail
  \/ CheckLaps
  \/ SynthSector
  \/ Assemble
  \/ AnalyzeConsistency
  \/ AnalyzeBrakingZones
  \/ AnalyzeAccelerationZones
  \/ AnalyzeCorners
  \/ DeficitEnter
  \/ DeficitSample
  \/ DeficitNext
  \/ DeficitsDone
  \/ Rank

Spec == Init /\ [][Next]_vars

\* ------------------------------------------------------- a second invocation
\* what an invocation hands to its caller: the error, or the result object
Returned ==
  [outcome |-> outcome,
   theoreticalTime |-> theoreticalTime,
   chartData |-> chartData,
   sectorStats |-> sectorStats,
   bestSectors |-> bestSectors,
   consistency |-> consistency,
   improvementAreas |-> improvementAreas,
   brakingZones |-> brakingZones,
   accelerationZones |-> accelerationZones,
   cornerAnalysis |-> corners,
   speedDeficits |-> speedDeficits]

\* the caller keeps what the first invocation handed back and calls
\* synthesizePerfectLap again for the same track; every local of the
\* function is fresh
Reinvoke ==
  /\ pc \in {"done", "failed"}
  /\ probe = NoProbe
  /\ probe' = [fn |-> "synthesizePerfectLap", result |-> Returned]
  /\ pc' = "start"
  /\ outcome' = "running"
  /\ data' = << >>
  /\ i' = 1
  /\ currentLapStart' = 0
  /\ lapNumber' = 1
  /\ laps' = << >>
  /\ sIdx' = 1
  /\ bestSectors' = << >>
  /\ sectorStats' = << >>
  /\ theoreticalTime' = 0
  /\ chartData' = << >>
  /\ consistency' = << >>
  /\ brakingZones' = << >>
  /\ accelerationZones' = << >>
  /\ corners' = << >>
  /\ sdK' = 1
  /\ sdI' = 0
  /\ sdIter' = 0
  /\ speedDeficits' = << >>
  /\ improvementAreas' = << >>
  /\ UNCHANGED << chatVars, file >>

TwiceNext ==
  \/ Next
  \/ Reinvoke

TwiceSpec == Init /\ [][TwiceNext]_vars

\* ------------------------------------------------- analyzers in any order
\* The five analyzers are synchronous functions of laps (and bestSectors);
\* synthesizePerfectLap calls them one after the other at lines 610-614.
\* Here they are tasks started at line 610 that a scheduler runs in any
\* order, analyzeSpeedDeficits one best sector at a time between the
\* others; probe.ran holds the analyzers that have returned.
Analyzers == {"consistency", "braking", "accel", "corners", "deficits"}

Tasks(ran) == [fn |-> "analyzers", ran |-> ran]

Pending(name) ==
  /\ pc = "consistency"
  /\ probe.fn = "analyzers"
  /\ name \notin probe.ran

\* variant: one module-level array is shared by the two zone analyzers, each
\* pushes onto what the other left
FreshList_Shared(kind) == IF kind = "accel" THEN brakingZones ELSE accelerationZones

\* const brakingZones = [] (line 260), const accelZones = [] (line 302): the
\* list an analyzer pushes onto is a fresh local
FreshList(kind) == << >>

\* the sampling loop of lines 403-423 from index idx on, for a step > 0
RECURSIVE SamplePoints(_, _, _, _)
SamplePoints(allSectorSpeeds, bestSector, sectorDef, idx) ==
  IF idx >= MinLength(allSectorSpeeds) THEN << >>
  ELSE DeficitAt(allSectorSpeeds, bestSector, sectorDef, idx)
         \o SamplePoints(allSectorSpeeds, bestSector, sectorDef,
                         idx + SampleStep(MinLength(allSectorSpeeds)))

\* the body of the loop over bestSectors (lines 381-424) returns for this
\* sector: it is skipped, or its sampling loop advances
SectorReturns(ls, bestSector) ==
  \/ SectorDefOf(bestSector.name) = << >>
  \/ Len(AllSectorSpeeds(ls, SectorDefOf(bestSector.name)[1])) < 2
  \/ SampleStep(MinLength(AllSectorSpeeds(ls, SectorDefOf(bestSector.name)[1]))) > 0

\* the deficits pushed for one best sector
SectorDeficits(ls, bestSector) ==
  IF SectorDefOf(bestSector.name) = << >>
       \/ Len(AllSectorSpeeds(ls, SectorDefOf(bestSector.name)[1])) < 2
    THEN << >>
    ELSE SamplePoints(AllSectorSpeeds(ls, SectorDefOf(bestSector.name)[1]),
                      bestSector, SectorDefOf(bestSector.name)[1], 0)

\* analyzeSpeedDeficits as a function, where every sampling loop advances
RECURSIVE analyzeSpeedDeficits(_, _)
analyzeSpeedDeficits(ls, sectors) ==
  IF sectors = << >> THEN << >>
  ELSE SectorDeficits(ls, Head(sectors)) \o analyzeSpeedDeficits(ls, Tail(sectors))

TaskConsistency ==
  /\ Pending("consistency")
  /\ consistency' = << analyzeConsistency(laps) >>
  /\ probe' = Tasks(probe.ran \cup {"consistency"})
  /\ UNCHANGED << chatVars, file, data, pc, outcome, detectVars, synthVars, brakingZones,
                  accelerationZones, corners, deficitVars, improvementAreas >>

TaskBrakingZones ==
  /\ Pending("braking")
  /\ brakingZones' = FreshList("braking") \o analyzeBrakingZones(laps)
  /\ probe' = Tasks(probe.ran \cup {"braking"})
  /\ UNCHANGED << chatVars, file, data, pc, outcome, detectVars, synthVars, consistency,
                  accelerationZones, corners, deficitVars, improvementAreas >>

TaskAccelerationZones ==
  /\ Pending("accel")
  /\ accelerationZones' = FreshList("accel") \o analyzeAccelerationZones(laps)
  /\ probe' = Tasks(probe.ran \cup {"accel"})
  /\ UNCHANGED << chatVars, file, data, pc, outcome, detectVars, synthVars, consistency,
                  brakingZones, corners, deficitVars, improvementAreas >>

TaskCorners ==
  /\ Pending("corners")
  /\ corners' = analyzeCorners(laps)
  /\ probe' = Tasks(probe.ran \cup {"corners"})
  /\ UNCHANGED << chatVars, file, data, pc, outcome, detectVars, synthVars, consistency,
                  brakingZones, accelerationZones, deficitVars, improvementAreas >>

\* analyzeSpeedDeficits handles its next best sector; a sector whose
\* sampling loop does not advance is never left
TaskDeficitSector ==
  /\ Pending("deficits")
  /\ sdK <= Len(bestSectors)
  /\ SectorReturns(laps, bestSectors[sdK])
  /\ speedDeficits' = speedDeficits \o SectorDeficits(laps, bestSectors[sdK])
  /\ sdK' = sdK + 1
  /\ UNCHANGED << chatVars, probe, file, data, pc, outcome, detectVars, synthVars, zoneVars,
                  sdI, sdIter, improvementAreas >>

TaskDeficitsReturn ==
  /\ Pending("deficits")
  /\ sdK > Len(bestSectors)
  /\ probe' = Tasks(probe.ran \cup {"deficits"})
  /\ UNCHANGED << chatVars, file, data, pc, outcome, detectVars, synthVars, zoneVars,
                  deficitVars, improvementAreas >>

\* all five have returned: lines 615-635
Join ==
  /\ pc = "consistency"
  /\ probe.fn = "analyzers"
  /\ probe.ran = Analyzers
  /\ improvementAreas' =
       identifyImprovementAreas(sectorStats, consistency[1], brakingZones, corners)
  /\ pc' = "done"
  /\ outcome' = "ok"
  /\ UNCHANGED << chatVars, probe, file, data, detectVars, synthVars, zoneVars, deficitVars >>

AnyOrderInit ==
  /\ probe = Tasks({})
  /\ ChatInit(NoSession)
  /\ \E f \in Files : EngineInit(f, "start")

AnyOrderNext ==
  \/ OpenFile
  \/ CheckHeaders
  \/ ParseRows
  \/ CheckData
  \/ DetectStep
  \/ DetectTail
  \/ CheckLaps
  \/ SynthSector
  \/ Assemble
  \/ TaskConsistency
  \/ TaskBrakingZones
  \/ TaskAccelerationZones
  \/ TaskCorners
  \/ TaskDeficitSector
  \/ TaskDeficitsReturn
  \/ Join

AnyOrderSpec == AnyOrderInit /\ [][AnyOrderNext]_vars

\* ----------------------------------------------------- functions on their own
\* The pure functions of the module, each called on an input drawn from a
\* bounded set, once in a behaviour; the engine is idle.
engineVars ==
  << file, data, pc, outcome, detectVars, synthVars, analysisVars >>

CallFindSector ==
  /\ probe = NoProbe
  /\ \E distance \in (-5)..MaxDistance :
       probe' = [fn |-> "FindSector", arg |-> distance, result |-> FindSector(distance)]
  /\ UNCHANGED << chatVars, engineVars >>

\* a lap time of whole milliseconds: a short one, or one of a few long ones
CallFormatLapTime ==
  /\ probe = NoProbe
  /\ \E k \in (0..MaxMillis) \cup {59999, 60000, 90125, 3599999} :
       probe' = [fn |-> "formatLapTime", arg |-> k, result |-> formatLapTime(k)]
  /\ UNCHANGED << chatVars, engineVars >>

\* lap times in tenths of a second: 90.0, 90.5, 91.0 and a lap 22 s slower
ProbeLapTimes == {900, 905, 910, 1120}

\* analyzeConsistency on 1 to MaxCalls laps with these times
CallAnalyzeConsistency ==
  /\ probe = NoProbe
  /\ \E n \in 1..MaxCalls : \E lapTimes \in [1..n -> ProbeLapTimes] :
       probe' = [fn |-> "analyzeConsistency", arg |-> lapTimes,
                 result |-> analyzeConsistency([k \in 1..n |-> [lapTime |-> lapTimes[k]]])]
  /\ UNCHANGED << chatVars, engineVars >>

\* isDrafting on a sector of each name with a top speed around the threshold
CallIsDrafting ==
  /\ probe = NoProbe
  /\ \E k \in 1..Len(COTA_SECTORS) :
     \E maxSpeed \in (DRAFTING_SPEED_THRESHOLD - 5)..(DRAFTING_SPEED_THRESHOLD + 5) :
       LET sector == [name |-> COTA_SECTORS[k].name, maxSpeed |-> maxSpeed]
       IN probe' = [fn |-> "isDrafting", arg |-> sector, result |-> isDrafting(sector)]
  /\ UNCHANGED << chatVars, engineVars >>

CallsInit ==
  /\ probe = NoProbe
  /\ ChatInit(NoSession)
  /\ EngineInit(MissingFile, "idle")

CallsNext ==
  \/ CallFindSector
  \/ CallFormatLapTime
  \/ CallAnalyzeConsistency
  \/ CallIsDrafting

CallsSpec == CallsInit /\ [][CallsNext]_vars

\* ------------------------------------------------------------ ChatInterface
\* src/components/ChatInterface.tsx.  The component is mounted with a
\* sessionId; loadChatHistory and handleSend are async functions whose
\* continuations run when their fetch responds, in either order.  A state
\* setter is modelled as taking effect at once.  Texts are sequences of
\* characters, a streamed reply is the sequence of its chunks.
MaxSends == 2

MaxChunks == 2

\* what the user may type: nothing, a blank, a question
Inputs == { << >>, << " " >>, << "b", "r", "a", "k", "e", "?" >>, << "S", "2", "?" >> }

RECURSIVE trimStart(_)
trimStart(s) == IF s # << >> /\ Head(s) = " " THEN trimStart(Tail(s)) ELSE s

RECURSIVE trimEnd(_)
trimEnd(s) ==
  IF s # << >> /\ s[Len(s)] = " " THEN trimEnd(SubSeq(s, 1, Len(s) - 1)) ELSE s

\* String.prototype.trim on these texts
trim(s) == trimEnd(trimStart(s))

Message(role, content) == [role |-> role, content |-> content]

\* 'Sorry, I encountered an error. Please try again.'
ErrorText == << "Sorry" >>

\* the message lists /api/chat/history may answer with: none, or an earlier
\* exchange of the session
StoredHistories ==
  { << >>,
    << Message("user", << "S", "1", "?" >>), Message("assistant", << "Lift ", "less" >>) >> }

\* the chunks of a streamed reply
Chunks == { "Brake ", "later" }

\* useEffect of lines 28-32 on mount: loadChatHistory is called when there is
\* a sessionId, and it sends its fetch (lines 41-44)
Mount ==
  /\ historyPc = "unmounted"
  /\ historyPc' = IF sessionId # NoSession THEN "fetching" ELSE "returned"
  /\ UNCHANGED << sessionId, messages, input, isLoading, streamingMessage, sendPc,
                  accumulatedText, appended, probe, engineVars >>

\* setMessages(data.messages), line 48: the list is replaced
ShowHistory(prev, history) == history

\* the fetch of loadChatHistory settles, lines 45-53: ok is false when it
\* rejects or the response is not ok
HistoryResponds ==
  /\ historyPc = "fetching"
  /\ \E ok \in BOOLEAN : \E history \in StoredHistories :
       messages' = IF ok /\ Len(history) > 0 THEN ShowHistory(messages, history) ELSE messages
  /\ historyPc' = "returned"
  /\ UNCHANGED << sessionId, input, isLoading, streamingMessage, sendPc,
                  accumulatedText, appended, probe, engineVars >>

\* onChange of the input field, line 207; the field is rendered with a
\* sessionId and disabled while loading
Type ==
  /\ historyPc # "unmounted"
  /\ sessionId # NoSession
  /\ ~isLoading
  /\ \E text \in Inputs : input' = text
  /\ UNCHANGED << sessionId, messages, isLoading, streamingMessage, historyPc, sendPc,
                  accumulatedText, appended, probe, engineVars >>

UserMessages(list) == SelectSeq(list, LAMBDA m : m.role = "user")

\* handleSend up to its fetch, lines 56-79; at most MaxSends sends are followed
HandleSend ==
  /\ historyPc # "unmounted"
  /\ ~(trim(input) = << >> \/ sessionId = NoSession \/ isLoading)
  /\ Len(UserMessages(appended)) < MaxSends
  /\ messages' = Append(messages, Message("user", input))
  /\ appended' = Append(appended, Message("user", input))
  /\ input' = << >>
  /\ isLoading' = TRUE
  /\ streamingMessage' = << >>
  /\ accumulatedText' = << >>
  /\ sendPc' = "posting"
  /\ UNCHANGED << sessionId, historyPc, probe, engineVars >>

\* the catch and finally blocks, lines 110-122
SendFailed ==
  /\ messages' = Append(messages, Message("assistant", ErrorText))
  /\ appended' = Append(appended, Message("assistant", ErrorText))
  /\ isLoading' = FALSE
  /\ sendPc' = "idle"
  /\ UNCHANGED << sessionId, input, streamingMessage, historyPc, accumulatedText,
                  probe, engineVars >>

\* the POST responds with a readable body, lines 81-91
PostResponds ==
  /\ sendPc = "posting"
  /\ sendPc' = "reading"
  /\ UNCHANGED << sessionId, messages, input, isLoading, streamingMessage, historyPc,
                  accumulatedText, appended, probe, engineVars >>

\* the POST rejects, is not ok or has no body, lines 81-91
PostFails ==
  /\ sendPc = "posting"
  /\ SendFailed

\* one chunk is read, lines 93-100; at most MaxChunks chunks are followed
ReadChunk ==
  /\ sendPc = "reading"
  /\ Len(accumulatedText) < MaxChunks
  /\ \E chunk \in Chunks :
       /\ accumulatedText' = Append(accumulatedText, chunk)
       /\ streamingMessage' = Append(accumulatedText, chunk)
  /\ UNCHANGED << sessionId, messages, input, isLoading, historyPc, sendPc, appended,
                  probe, engineVars >>

\* reader.read() rejects, line 94
ReadFails ==
  /\ sendPc = "reading"
  /\ SendFailed

\* the stream is done, lines 95 and 102-110, then finally
ReadDone ==
  /\ sendPc = "reading"
  /\ messages' = Append(messages, Message("assistant", accumulatedText))
  /\ appended' = Append(appended, Message("assistant", accumulatedText))
  /\ streamingMessage' = << >>
  /\ isLoading' = FALSE
  /\ sendPc' = "idle"
  /\ UNCHANGED << sessionId, input, historyPc, accumulatedText, probe, engineVars >>

\* the component is rendered without or with a session; the engine is idle
ChatSpecInit ==
  /\ probe = NoProbe
  /\ EngineInit(MissingFile, "idle")
  /\ \E id \in {NoSession, "session"} : ChatInit(id)

ChatNext ==
  \/ Mount
  \/ HistoryResponds
  \/ Type
  \/ HandleSend
  \/ PostResponds
  \/ PostFails
  \/ ReadChunk
  \/ ReadFails
  \/ ReadDone

ChatSpec == ChatSpecInit /\ [][ChatNext]_vars

\* ======================================================================
\* Properties
\* ======================================================================
\* the synthesis loop has ended without error
Assembled ==
  pc \in {"consistency", "braking", "accel", "corners", "deficits", "sampling",
          "rank", "done"}

\* the instance of sector definition k in a lap, and whether it is a
\* candidate for the winner (present and not drafting-affected)
Instance(lap, k) == extractSector(lap, COTA_SECTORS[k])

Survives(inst) ==
  inst # <<>> /\ (inst[1].name = "S1" \/ inst[1].maxSpeed <= 162)

Survivors(k) ==
  { n \in 1..Len(laps) : Survives(Instance(laps[n], k)) }

BestTimes == [k \in 1..Len(sectorStats) |-> sectorStats[k].bestTime]

\* C1: once the synthesis has produced its result, theoreticalTime is the sum
\* of bestTime over sectorStats, and sectorStats and the winning sectors list
\* the same sectors with the same times.
C1_TheoreticalTimeIsSum ==
  Assembled =>
    /\ theoreticalTime = SumSeq(BestTimes)
    /\ Len(sectorStats) = Len(bestSectors)
    /\ \A k \in 1..Len(sectorStats) :
         /\ sectorStats[k].sectorName = bestSectors[k].name
         /\ sectorStats[k].bestTime = bestSectors[k].time

C1_Witness ==
  /\ pc = "done"
  /\ Len(laps) >= 2
  /\ Len(sectorStats) >= 3
  /\ theoreticalTime > 0

\* C2: no winning sector is drafting-affected (a corner sector with a top
\* speed above 162); in particular, with two laps whose S2 instances are a
\* slower one at 150 in lap 1 and a faster one at 165 in lap 2, the S2 winner
\* is the instance of lap 1.
C2_NoDraftingWinner ==
  /\ \A k \in 1..Len(bestSectors) :
       bestSectors[k].name # "S1" => bestSectors[k].maxSpeed <= 162
  /\ ( /\ sIdx > 2
       /\ Len(laps) = 2
       /\ Instance(laps[1], 2) # <<>>
       /\ Instance(laps[2], 2) # <<>>
       /\ Instance(laps[1], 2)[1].maxSpeed = 150
       /\ Instance(laps[2], 2)[1].maxSpeed = 165
       /\ Instance(laps[2], 2)[1].time < Instance(laps[1], 2)[1].time )
     => \E k \in 1..Len(bestSectors) :
          bestSectors[k].name = "S2" /\ bestSectors[k].lapNumber = 1

C2_Witness ==
  /\ sIdx > 2
  /\ Len(laps) = 2
  /\ Instance(laps[1], 2) # <<>>
  /\ Instance(laps[2], 2) # <<>>
  /\ Instance(laps[1], 2)[1].maxSpeed = 150
  /\ Instance(laps[2], 2)[1].maxSpeed = 165
  /\ Instance(laps[2], 2)[1].time < Instance(laps[1], 2)[1].time
  /\ \E k \in 1..Len(bestSectors) :
       bestSectors[k].name = "S2" /\ bestSectors[k].lapNumber = 1

\* C3: every invocation terminates.  All loops of the engine but one run
\* over an array with an index that grows by one; the sampling loop of
\* analyzeSpeedDeficits adds Math.floor(minLength / 5) to its index, and it
\* terminates exactly when every iteration moves the index forward.
C3_SamplingLoopAdvances ==
  [][(pc = "sampling" /\ pc' = "sampling") => sdI' > sdI]_vars

Dist(k) == data[k + 1].Laptrigger_lapdist_dls

\* the indices i (0-based) at which the distance resets between i-1 and i
Boundaries ==
  { b \in 1..(Len(data) - 1) : Dist(b - 1) > 3000 /\ Dist(b) < 200 }

SegStarts == {0} \cup Boundaries

SegEnd(s) ==
  IF \E b \in Boundaries : b > s
    THEN (CHOOSE b \in Boundaries : b > s /\ \A c \in Boundaries : c > s => b <= c) - 1
    ELSE Len(data) - 1

SegLen(s) == SegEnd(s) - s + 1

LapRange(k) == << laps[k].startIndex, laps[k].endIndex >>

\* (stated where detectLaps returns; laps is not assigned afterwards)
\* C5: when every segment between distance resets (k resets, k + 1 segments)
\* has more than 10 samples, detectLaps returns exactly k + 1 laps, the m-th
\* lap covering the m-th segment; one reset gives the laps [0, i-1] and
\* [i, end].
C5_LapPerSegment ==
  (pc = "detected" /\ \A s \in SegStarts : SegLen(s) > 10) =>
    /\ Len(laps) = Cardinality(Boundaries) + 1
    /\ \A k \in 1..Len(laps) :
         /\ laps[k].startIndex \in SegStarts
         /\ laps[k].endIndex = SegEnd(laps[k].startIndex)
         /\ Cardinality({ s \in SegStarts : s < laps[k].startIndex }) = k - 1

C5_Witness ==
  /\ pc = "detected"
  /\ Cardinality(Boundaries) = 1
  /\ \A s \in SegStarts : SegLen(s) > 10
  /\ Len(laps) = 2
  /\ laps[1].startIndex = 0
  /\ laps[2].endIndex = Len(data) - 1

\* C6: a segment of 10 or fewer samples is never returned as a lap, the
\* cursor moves to every reset index whether or not the segment before it was
\* kept, and the laps returned are exactly the longer segments, numbered
\* 1, 2, ... in stream order.
C6_ShortSegmentsDiscarded ==
  /\ \A k \in 1..Len(laps) :
       /\ laps[k].lapNumber = k
       /\ Len(laps[k].data) > 10
       /\ k < Len(laps) => laps[k].endIndex < laps[k + 1].startIndex
  /\ pc = "detect" =>
       /\ currentLapStart \in SegStarts
       /\ \A b \in Boundaries : b < i => b <= currentLapStart
       /\ lapNumber = Len(laps) + 1
  /\ pc = "detected" =>
       { LapRange(k) : k \in 1..Len(laps) }
         = { << s, SegEnd(s) >> : s \in { t \in SegStarts : SegLen(t) > 10 } }

C6_Witness ==
  /\ pc = "detected"
  /\ SegLen(0) <= 10
  /\ Len(laps) = 1
  /\ laps[1].lapNumber = 1
  /\ laps[1].startIndex = SegEnd(0) + 1

PastLapCheck ==
  Assembled \/ pc = "synth" \/ (pc = "failed" /\ outcome = "NoValidSectors")

\* C7: the consistencyScore of every computed ConsistencyMetrics lies in
\* [0, 100] (held in hundredths of a point).
C7_ScoreInRange ==
  \A k \in 1..Len(consistency) :
    consistency[k].consistencyScore >= 0 /\ consistency[k].consistencyScore <= 10000

C7_Witness ==
  /\ consistency # <<>>
  /\ consistency[1].stdDeviation > 10000
  /\ consistency[1].consistencyScore = 0

\* ---- ranking
PriorityRank(p) == CASE p = "high" -> 1 [] p = "medium" -> 2 [] p = "low" -> 3

\* x ranks strictly above y
Above(x, y) ==
  \/ PriorityRank(x.priority) < PriorityRank(y.priority)
  \/ /\ x.priority = y.priority
     /\ x.timeLoss.num * y.timeLoss.den > y.timeLoss.num * x.timeLoss.den

Count(seq, x) == Cardinality({ m \in 1..Len(seq) : seq[m] = x })

\* the items the ranker collected before sorting and truncating
Collected == Improvements(sectorStats, consistency[1], brakingZones, corners)

\* C8: the ranker returns at most 8 items, every high item before every
\* medium item before every low item and with non-increasing timeLoss inside
\* a priority; the items returned are collected items, and no collected item
\* that was dropped ranks above one that was kept.
C8_RankedAndTruncated ==
  pc = "done" =>
    /\ Len(improvementAreas) <= 8
    /\ Len(improvementAreas) = (IF Len(Collected) < 8 THEN Len(Collected) ELSE 8)
    /\ \A a, b \in 1..Len(improvementAreas) :
         a < b => ~Above(improvementAreas[b], improvementAreas[a])
    /\ \A m \in 1..Len(improvementAreas) :
         Count(improvementAreas, improvementAreas[m]) <= Count(Collected, improvementAreas[m])
    /\ \A m \in 1..Len(Collected) :
         Count(improvementAreas, Collected[m]) < Count(Collected, Collected[m]) =>
           \A k \in 1..Len(improvementAreas) : ~Above(Collected[m], improvementAreas[k])

C8_Witness ==
  /\ pc = "done"
  /\ Len(Collected) > 8
  /\ Len(improvementAreas) = 8
  /\ \E a, b \in 1..8 :
       /\ improvementAreas[a].priority = "high"
       /\ improvementAreas[b].priority = "medium"
  /\ \E m \in 1..Len(Collected) :
       Collected[m].priority = "low" /\ Count(improvementAreas, Collected[m]) = 0

\* ---- synthesis, stated on the lap set
SurvivorTimes(k) == { Instance(laps[n], k)[1].time : n \in Survivors(k) }

MinSurvivorTime(k) ==
  CHOOSE t \in SurvivorTimes(k) : \A u \in SurvivorTimes(k) : t <= u

RECURSIVE SumOfBest(_)
SumOfBest(k) ==
  IF k = 0 THEN 0
  ELSE (IF Survivors(k) = {} THEN 0 ELSE MinSurvivorTime(k)) + SumOfBest(k - 1)

StatsOf(k) ==
  { m \in 1..Len(sectorStats) : sectorStats[m].sectorName = COTA_SECTORS[k].name }

ChartOf(k) ==
  { m \in 1..Len(chartData) : chartData[m].sector = COTA_SECTORS[k].name }

\* (stated where the synthesis ends and where the result is returned)
\* C9: the synthesis fails with NoValidSectors exactly when no sector
\* definition has a surviving instance (present with at least 2 samples and
\* not drafting-affected) in any lap; otherwise a definition without
\* survivor has no sectorStats entry, no chart point and no share of
\* theoreticalTime, and every other definition has all three.
C9_NoValidSectors ==
  /\ (pc = "failed" /\ outcome = "NoValidSectors") =>
       laps # <<>> /\ \A k \in 1..4 : Survivors(k) = {}
  /\ pc \in {"consistency", "done"} =>
       /\ \E k \in 1..4 : Survivors(k) # {}
       /\ theoreticalTime = SumOfBest(4)
       /\ \A k \in 1..4 :
            /\ Survivors(k) = {} => StatsOf(k) = {} /\ ChartOf(k) = {}
            /\ Survivors(k) # {} => Cardinality(StatsOf(k)) = 1 /\ ChartOf(k) # {}

C9_Witness ==
  /\ pc = "failed"
  /\ outcome = "NoValidSectors"
  /\ \E n \in 1..Len(laps) : \E k \in 1..4 : Instance(laps[n], k) # <<>>

\* C10: the invocation fails with NoLapsDetected exactly when detectLaps
\* keeps no lap (as for every stream of 1 to 10 rows), and then the sector
\* loop, the analyzers and the ranker have not run.
C10_NoLapsDetected ==
  /\ outcome = "NoLapsDetected" =>
       /\ pc = "failed" /\ Len(data) > 0 /\ laps = <<>>
       /\ sIdx = 1 /\ bestSectors = <<>> /\ sectorStats = <<>> /\ chartData = <<>>
       /\ consistency = <<>> /\ brakingZones = <<>> /\ accelerationZones = <<>>
       /\ corners = <<>> /\ sdK = 1 /\ speedDeficits = <<>> /\ improvementAreas = <<>>
  /\ PastLapCheck => laps # <<>>
  /\ (pc = "failed" /\ Len(data) > 0 /\ laps = <<>>) => outcome = "NoLapsDetected"
  /\ (Len(data) >= 1 /\ Len(data) <= 10) => laps = <<>>

C10_Witness ==
  /\ pc = "failed"
  /\ outcome = "NoLapsDetected"
  /\ Len(data) > 10

\* ---------------------------------------------------------------------- C11
\* the indicators that the header row contains, spelled as they are
IndicatorsInHeader ==
  { k \in 1..Len(raceResultsIndicators) :
      \E j \in 1..Len(file.headers) : file.headers[j] = raceResultsIndicators[k] }

\* no stage after the header test has run
NothingAttempted ==
  /\ data = << >>
  /\ laps = << >>
  /\ i = 1 /\ currentLapStart = 0 /\ lapNumber = 1
  /\ bestSectors = << >> /\ improvementAreas = << >>

\* C11: when the header row of an existing file contains three or more of
\* the six results indicators, the invocation fails with WrongFileKind once
\* the header has been tested, and neither column mapping, validation nor
\* lap detection has run, whatever the rows hold.
C11_WrongFileKind ==
  /\ (file.exists /\ Cardinality(IndicatorsInHeader) >= 3 /\ pc \notin {"start", "headers"}) =>
       (pc = "failed" /\ outcome = "WrongFileKind")
  /\ outcome = "WrongFileKind" => NothingAttempted

\* a results header over rows that are good telemetry is rejected
C11_Witness ==
  /\ outcome = "WrongFileKind"
  /\ Cardinality(IndicatorsInHeader) = 3
  /\ Len(file.rows) > 10
  /\ \E k \in 1..Len(file.rows) : ParsedData(file)[k].Laptrigger_lapdist_dls > 3000

\* ---------------------------------------------------------------------- C12
\* the four error kinds of the specification
SpecifiedErrors ==
  {"WrongFileKind", "EmptyOrInvalidData", "NoLapsDetected", "NoValidSectors"}

\* the file has a header row and no data row
HeaderOnly == file.exists /\ file.headers # << >> /\ file.rows = << >>

\* C12 as stated: every failure of an invocation is one of the four
\* specified error kinds.
C12_OnlyFourKinds == pc = "failed" => outcome \in SpecifiedErrors

\* C12, amended: every failure of an invocation is one of six kinds, the four
\* specified ones, FileNotFound (no CSV file for the track) and
\* NoTelemetryData (the parser returned no rows); a file with a header row
\* and zero data rows that is not a results sheet fails with NoTelemetryData,
\* and a missing file with FileNotFound.
C12_SixKinds ==
  /\ pc = "failed" <=> outcome \in SpecifiedErrors \cup {"FileNotFound", "NoTelemetryData"}
  /\ outcome = "NoTelemetryData" <=>
       (HeaderOnly /\ ~IsRaceResults(file.headers) /\ pc \notin {"start", "headers", "rows", "loaded"})
  /\ outcome = "FileNotFound" <=> (~file.exists /\ pc # "start")
  /\ outcome \in {"FileNotFound", "NoTelemetryData"} => NothingAttempted

\* a telemetry header without rows has been rejected
C12_Witness ==
  /\ HeaderOnly
  /\ file.headers = TelemetryHeaders
  /\ pc = "failed"
  /\ outcome = "NoTelemetryData"

\* ---------------------------------------------------------------------- C13
\* the names of the sector definitions that have a winner, in definition
\* order
WinnerNames ==
  LET ks == SelectSeq(<< 1, 2, 3, 4 >>, LAMBDA k : Survivors(k) # {})
  IN [j \in 1..Len(ks) |-> COTA_SECTORS[ks[j]].name]

\* C13: in every result, sectorStats names exactly the sector definitions
\* that have a winner, once each and in the order S1, S2, S3, S4, and
\* bestSectors names the same definitions in the same order.
C13_StatsInDefinitionOrder ==
  pc \in {"consistency", "done"} =>
    /\ [j \in 1..Len(sectorStats) |-> sectorStats[j].sectorName] = WinnerNames
    /\ [j \in 1..Len(bestSectors) |-> bestSectors[j].name] = WinnerNames

\* S2 is present in the only lap but drafting-affected: the result skips it
C13_Witness ==
  /\ pc = "consistency"
  /\ Len(laps) = 1
  /\ Instance(laps[1], 2) # << >>
  /\ [j \in 1..Len(sectorStats) |-> sectorStats[j].sectorName] = << "S1", "S3", "S4" >>

\* ---------------------------------------------------------------------- C14
\* the sector definitions whose range [start, end) holds a distance
Containing(distance) ==
  { k \in 1..Len(COTA_SECTORS) : InSector(distance, COTA_SECTORS[k]) }

\* C14: every distance d >= 0 lies in the range of exactly one sector
\* definition, and the sector label computed for a zone at d is the name of
\* that definition, never 'Unknown'.
C14_SectorsPartition ==
  (probe.fn = "FindSector" /\ probe.arg >= 0) =>
    /\ Cardinality(Containing(probe.arg)) = 1
    /\ probe.result # "Unknown"
    /\ \A k \in Containing(probe.arg) : probe.result = COTA_SECTORS[k].name

\* a distance on the border of two sectors has been labelled
C14_Witness ==
  /\ probe.fn = "FindSector"
  /\ probe.arg \in {1000, 2200, 3500}
  /\ probe.result \in {"S2", "S3", "S4"}

Formatted(k) ==
  toString(k \div 60000) \o << ":" >> \o padStart(toString((k \div 1000) % 60), 2, "0")
    \o << "." >> \o padStart(toString(k % 1000), 3, "0")

\* C16: formatLapTime of a non-negative time of whole milliseconds is
\* M:SS.mmm, with M the whole minutes, SS the whole seconds modulo 60 on two
\* digits and mmm the milliseconds on three digits.
C16_FormatsWholeMilliseconds ==
  probe.fn = "formatLapTime" => probe.result = Formatted(probe.arg)

\* C16, the example: 90.125 seconds is formatted as 1:30.125
C16_Example ==
  (probe.fn = "formatLapTime" /\ probe.arg = 90125) =>
    probe.result = << "1", ":", "3", "0", ".", "1", "2", "5" >>

C16_ExampleWitness == probe.fn = "formatLapTime" /\ probe.arg = 90125

\* 1.001 seconds is formatted as 0:01.000
C16_OffByOne ==
  /\ probe.fn = "formatLapTime"
  /\ probe.arg = 1001
  /\ probe.result = << "0", ":", "0", "1", ".", "0", "0", "0" >>

\* ---------------------------------------------------------------------- C17
\* n * n times the population variance of the lap times x (tenths of a
\* second, squared), from the sums of x and of x squared
ScaledVariance(x) ==
  Len(x) * SumSeq([k \in 1..Len(x) |-> x[k] * x[k]]) - SumSeq(x) * SumSeq(x)

\* the population standard deviation of x, in thousandths of a second, lies
\* in [lo, hi]: (n * lo)^2 <= 10^4 * ScaledVariance <= (n * hi)^2
StdDeviationWithin(x, lo, hi) ==
  /\ lo <= 0 \/ ((Len(x) * lo) * (Len(x) * lo) + 9999) \div 10000 <= ScaledVariance(x)
  /\ ScaledVariance(x) <= ((Len(x) * hi) * (Len(x) * hi)) \div 10000

\* C17: consistencyScore is 100 minus 10 times the population standard
\* deviation of the lap times, clamped to [0, 100] (to within 0.02 point of
\* the exact value); for lap times 90.0, 90.5 and 91.0 it is about 95.9.
C17_ScoreFromStdDeviation ==
  probe.fn = "analyzeConsistency" =>
    LET score == probe.result.consistencyScore
    IN /\ score >= 0 /\ score <= 10000
       /\ score > 0 => StdDeviationWithin(probe.arg, 10000 - score - 2, 10000 - score + 2)
       /\ score = 0 => StdDeviationWithin(probe.arg, 9998, 11002)
       /\ probe.arg = << 900, 905, 910 >> => (score >= 9585 /\ score <= 9595)

\* the three laps of the example have been scored
C17_Witness ==
  /\ probe.fn = "analyzeConsistency"
  /\ probe.arg = << 900, 905, 910 >>
  /\ probe.result.stdDeviation = 408
  /\ probe.result.consistencyScore = 9592

\* a spread of 11 s has been clamped to 0
C17_ClampWitness ==
  /\ probe.fn = "analyzeConsistency"
  /\ probe.arg = << 900, 1120 >>
  /\ probe.result.consistencyScore = 0

\* ---------------------------------------------------------------------- C18
\* the position in COTA_SECTORS of the definition with a name
DefIndex(name) == CHOOSE k \in 1..Len(COTA_SECTORS) : COTA_SECTORS[k].name = name

\* C18: every winner is a surviving instance of its definition, no
\* surviving instance of that definition has a smaller time, and none with
\* the same time comes from an earlier lap.
C18_WinnerIsFirstMinimum ==
  pc \in {"consistency", "done"} =>
    \A j \in 1..Len(bestSectors) :
      LET k == DefIndex(bestSectors[j].name)
      IN /\ \E n \in Survivors(k) : Instance(laps[n], k)[1] = bestSectors[j]
         /\ \A n \in Survivors(k) :
              /\ bestSectors[j].time <= Instance(laps[n], k)[1].time
              /\ bestSectors[j].time = Instance(laps[n], k)[1].time
                   => bestSectors[j].lapNumber <= laps[n].lapNumber

\* two laps tie for the best S2 time and a third instance is slower
C18_Witness ==
  /\ pc = "consistency"
  /\ Len(laps) = 2
  /\ Survivors(2) = {1, 2}
  /\ Instance(laps[1], 2)[1].time = Instance(laps[2], 2)[1].time
  /\ \E j \in 1..Len(bestSectors) :
       bestSectors[j].name = "S2" /\ bestSectors[j].lapNumber = 1
  /\ Instance(laps[1], 1)[1].time < Instance(laps[2], 1)[1].time

\* ---------------------------------------------------------------------- C19
\* the sum of the times of the surviving instances of definition k in the
\* first n laps
RECURSIVE SurvivorTimeSum(_, _)
SurvivorTimeSum(k, n) ==
  IF n = 0 THEN 0
  ELSE (IF n \in Survivors(k) THEN Instance(laps[n], k)[1].time ELSE 0)
         + SurvivorTimeSum(k, n - 1)

\* C19: for every definition with a winner, timeGain is the mean time of
\* exactly the instances that were candidates for the winner (present and
\* not drafting-affected) minus the winner's time, and it is 0 when a single
\* instance survives.
C19_TimeGainOverCandidates ==
  pc \in {"consistency", "done"} =>
    \A j \in 1..Len(sectorStats) :
      LET k == DefIndex(sectorStats[j].sectorName)
          gain == sectorStats[j].timeGain
      IN /\ gain.den = Cardinality(Survivors(k))
         /\ gain.num = SurvivorTimeSum(k, Len(laps)) - gain.den * sectorStats[j].bestTime
         /\ Cardinality(Survivors(k)) = 1 => gain.num = 0

\* S2 has a slower drafting-affected instance that is left out of the mean,
\* so its gain is 0, while another sector averages two instances
C19_Witness ==
  /\ pc = "consistency"
  /\ Len(laps) = 2
  /\ Survivors(2) = {1}
  /\ Instance(laps[2], 2) # << >>
  /\ Instance(laps[2], 2)[1].time # Instance(laps[1], 2)[1].time
  /\ \E j \in 1..Len(sectorStats) :
       sectorStats[j].sectorName = "S2" /\ sectorStats[j].timeGain.num = 0
  /\ \E j \in 1..Len(sectorStats) :
       sectorStats[j].timeGain.den = 2 /\ sectorStats[j].timeGain.num > 0

\* ---------------------------------------------------------------------- C20
\* C20: isDrafting holds exactly for the sectors that are not S1 and whose
\* maxSpeed is strictly greater than 162; an S1 sector is never drafting, nor
\* is any sector at exactly 162.
C20_DraftingPredicate ==
  probe.fn = "isDrafting" =>
    /\ probe.result <=> (probe.arg.name # "S1" /\ probe.arg.maxSpeed > 162)
    /\ probe.arg.name = "S1" => ~probe.result
    /\ probe.arg.maxSpeed = 162 => ~probe.result

\* a corner sector at exactly the threshold has been tested
C20_Witness ==
  /\ probe.fn = "isDrafting"
  /\ probe.arg.name = "S3"
  /\ probe.arg.maxSpeed = 162
  /\ probe.result = FALSE

\* the straight above the threshold has been tested
C20_StraightWitness ==
  /\ probe.fn = "isDrafting"
  /\ probe.arg.name = "S1"
  /\ probe.arg.maxSpeed = 167
  /\ probe.result = FALSE

\* ---------------------------------------------------------------------- C21
\* sample j (0-based) of a lap is active for a scan
ActiveAt(lap, kind, j) == Active(kind, At(lap.data, j))

\* the maximal runs << a, b >> of active samples of a lap that are followed
\* by an inactive sample of the same lap
ClosedRuns(lap, kind) ==
  { r \in (0..(Len(lap.data) - 2)) \X (0..(Len(lap.data) - 2)) :
      /\ r[1] <= r[2]
      /\ \A j \in r[1]..r[2] : ActiveAt(lap, kind, j)
      /\ r[1] = 0 \/ ~ActiveAt(lap, kind, r[1] - 1)
      /\ ~ActiveAt(lap, kind, r[2] + 1) }

\* what identifies the zone of a run: its lap, the distance of its middle
\* sample and the speeds of its first and last sample
ZoneKey(lap, r) ==
  [lapNumber |-> lap.lapNumber,
   distance |-> At(lap.data, r[1] + ((r[2] - r[1] + 1) \div 2)).Laptrigger_lapdist_dls,
   entrySpeed |-> At(lap.data, r[1]).Speed,
   exitSpeed |-> At(lap.data, r[2]).Speed]

\* the keys of the closed runs of at least 4 samples, by lap and then by
\* position in the lap
RunKeysFrom(lap, kind, a) ==
  LET starts == SelectSeq([j \in 1..(Len(lap.data) - a) |-> a + j - 1],
                          LAMBDA x : \E r \in ClosedRuns(lap, kind) :
                                       r[1] = x /\ r[2] - r[1] + 1 >= 4)
  IN [m \in 1..Len(starts) |->
        ZoneKey(lap, CHOOSE r \in ClosedRuns(lap, kind) : r[1] = starts[m])]

RECURSIVE RunKeys(_, _)
RunKeys(ls, kind) ==
  IF ls = << >> THEN << >>
  ELSE RunKeysFrom(Head(ls), kind, 0) \o RunKeys(Tail(ls), kind)

KeysOf(zones) ==
  [m \in 1..Len(zones) |->
     [lapNumber |-> zones[m].lapNumber, distance |-> zones[m].distance,
      entrySpeed |-> zones[m].entrySpeed, exitSpeed |-> zones[m].exitSpeed]]

\* C21: the braking zones and the acceleration zones are, lap by lap and in
\* order, exactly the maximal runs of at least 4 consecutive active samples
\* that are followed by an inactive sample of the lap; a run of 3 or fewer
\* emits nothing and does not delay the start of the next zone.
C21_ZonesAreClosedRuns ==
  pc \in {"corners", "done"} =>
    /\ KeysOf(brakingZones) = RunKeys(laps, "braking")
    /\ KeysOf(accelerationZones) = RunKeys(laps, "accel")

\* a lap with a run of 3 braking samples, then a run of exactly 4: only the
\* second is a zone
C21_Witness ==
  /\ pc = "corners"
  /\ Len(laps) = 1
  /\ << 0, 2 >> \in ClosedRuns(laps[1], "braking")
  /\ << 4, 7 >> \in ClosedRuns(laps[1], "braking")
  /\ Len(brakingZones) = 1
  /\ brakingZones[1].distance = 1520
  /\ Len(accelerationZones) = 1

\* ---------------------------------------------------------------------- C22
\* the deficit points emitted for a section
DeficitsOf(name) == { m \in 1..Len(speedDeficits) : speedDeficits[m].sector = name }

\* C22 as stated: the sampling loop evaluates at most 5 indices for a winning
\* sector, and no section has more than 5 SpeedDeficitPoints.
C22_FiveSamplesPerSector ==
  /\ sdIter <= 5
  /\ \A k \in 1..Len(COTA_SECTORS) : Cardinality(DeficitsOf(COTA_SECTORS[k].name)) <= 5

\* with a shortest common length of 6 the invocation returns 6 points for S1
C22_SixPoints ==
  /\ pc = "done"
  /\ Len(laps) = 2
  /\ MinLength(AllSectorSpeeds(laps, COTA_SECTORS[1])) = 6
  /\ Cardinality(DeficitsOf("S1")) = 6

\* ---- C23 ----

\* the minSpeed values of the corner observations grouped under one key
GroupMinSpeeds(key) ==
  LET g == Group(corners, key) IN [k \in 1..Len(g) |-> g[k].minSpeed]

\* maximum minus minimum of a group's minSpeed
Spread(key) == MaxSeq(GroupMinSpeeds(key)) - MinSeq(GroupMinSpeeds(key))

\* maximum minus mean of a group's minSpeed, as a fraction
BestMinusMean(key) ==
  [num |-> MaxSeq(GroupMinSpeeds(key)) * Len(GroupMinSpeeds(key)) - SumSeq(GroupMinSpeeds(key)),
   den |-> Len(GroupMinSpeeds(key))]

\* sector and priority of the corner-speed items the ranker collected
CornerSpeedItems ==
  LET found == SelectSeq(Collected, LAMBDA it : it.area = "Corner Speed")
  IN [k \in 1..Len(found) |-> << found[k].sector, found[k].priority >>]

\* the items expected when a measure of the group above 3 emits an item and
\* above 8 makes it high; measure is "spread" or "deficit"
RECURSIVE ExpectedCornerItems(_, _)
ExpectedCornerItems(keys, measure) ==
  IF keys = <<>> THEN <<>>
  ELSE LET m == IF measure = "spread"
                  THEN [num |-> Spread(Head(keys)), den |-> 1]
                  ELSE BestMinusMean(Head(keys))
       IN (IF m.num > 3 * m.den
             THEN << << Head(keys)[1], IF m.num > 8 * m.den THEN "high" ELSE "medium" >> >>
             ELSE <<>>)
          \o ExpectedCornerItems(Tail(keys), measure)

\* C23 as stated: a group of corner observations yields a corner-speed item
\* exactly when maximum minus minimum of its minSpeed exceeds 3, high when
\* that spread exceeds 8 and medium otherwise.
C23_SpreadDecides ==
  pc = "done" =>
    CornerSpeedItems = ExpectedCornerItems(KeysInOrder(corners, <<>>), "spread")

\* C23 amended: a group of corner observations yields a corner-speed item
\* exactly when its best minSpeed exceeds the mean minSpeed of the group by
\* more than 3, high when that excess is more than 8 and medium otherwise.
C23_BestMinusMeanDecides ==
  pc = "done" =>
    CornerSpeedItems = ExpectedCornerItems(KeysInOrder(corners, <<>>), "deficit")

\* a group whose spread exceeds 3 yields no item, another group yields one
C23_Witness ==
  /\ pc = "done"
  /\ \E k \in 1..Len(corners) :
       /\ Spread(GroupKey(corners[k])) > 3
       /\ BestMinusMean(GroupKey(corners[k])).num <= 3 * BestMinusMean(GroupKey(corners[k])).den
  /\ \E k \in 1..Len(CornerSpeedItems) : CornerSpeedItems[k][2] = "medium"

\* a group yields a high item
C23_HighWitness ==
  pc = "done" /\ \E k \in 1..Len(CornerSpeedItems) : CornerSpeedItems[k][2] = "high"

\* ---- C24 ----

\* sector and priority of the pace-loss items the ranker collected
PaceLossItems ==
  LET found == SelectSeq(Collected, LAMBDA it : it.area = "Pace")
  IN [k \in 1..Len(found) |-> << found[k].sector, found[k].priority >>]

\* timeGain (a fraction of tenths of a second) exceeds tenths/halves * 0.05 s
GainExceeds(stat, twentieths) ==
  2 * stat.timeGain.num > twentieths * stat.timeGain.den

\* the priority C24 gives to a timeGain above 0.1
PaceBand(stat) ==
  CASE GainExceeds(stat, 6) -> "high"
    [] GainExceeds(stat, 3) /\ ~GainExceeds(stat, 6) -> "medium"
    [] GainExceeds(stat, 2) /\ ~GainExceeds(stat, 3) -> "low"

\* C24: a SectorStats entry gets a pace-loss item exactly when its timeGain
\* exceeds 0.1 s; the item is high above 0.3, medium in (0.15, 0.3], low in
\* (0.1, 0.15]; no sector has two pace-loss items.
C24_PaceItemsByTimeGain ==
  pc = "done" =>
    LET gaining == SelectSeq(sectorStats, LAMBDA stat : GainExceeds(stat, 2))
    IN /\ PaceLossItems = [k \in 1..Len(gaining) |->
                             << gaining[k].sectorName, PaceBand(gaining[k]) >>]
       /\ \A a, b \in 1..Len(PaceLossItems) :
            PaceLossItems[a][1] = PaceLossItems[b][1] => a = b

\* a result with a low pace-loss item among several pace-loss items
C24_Witness ==
  /\ pc = "done"
  /\ Len(PaceLossItems) >= 2
  /\ \E k \in 1..Len(PaceLossItems) : PaceLossItems[k][2] = "low"

\* a result with a sector whose timeGain is at most 0.1 s and has no item
C24_NoItemWitness ==
  /\ pc = "done"
  /\ \E k \in 1..Len(sectorStats) :
       /\ ~GainExceeds(sectorStats[k], 2)
       /\ \A m \in 1..Len(PaceLossItems) : PaceLossItems[m][1] # sectorStats[k].sectorName

\* a timeGain of exactly 0.15 s or exactly 0.3 s
C24_BoundaryWitness ==
  /\ pc = "done"
  /\ \E k \in 1..Len(sectorStats) :
       \/ 2 * sectorStats[k].timeGain.num = 3 * sectorStats[k].timeGain.den
       \/ sectorStats[k].timeGain.num = 3 * sectorStats[k].timeGain.den

\* high and medium pace-loss items in one result
C24_HighMediumWitness ==
  /\ pc = "done"
  /\ \E k \in 1..Len(PaceLossItems) : PaceLossItems[k][2] = "high"
  /\ \E k \in 1..Len(PaceLossItems) : PaceLossItems[k][2] = "medium"

\* ---- C25 ----

\* the stream passed the header check and the plausibility test has run
Validated ==
  /\ pc \in {"loaded", "failed"}
  /\ outcome \notin {"FileNotFound", "WrongFileKind"}

\* row k of the coerced rows carries one of the three channels
HasChannel(rows, k) ==
  \/ rows[k].timestamp > 0
  \/ rows[k].Speed > 0
  \/ rows[k].Laptrigger_lapdist_dls > 0

\* at least one row, and none of the first min(10, n) rows carries a channel
NoChannelInFirstTen(rows) ==
  /\ Len(rows) >= 1
  /\ \A k \in 1..Len(rows) : k <= 10 => ~HasChannel(rows, k)

\* C25: for a stream that reaches the plausibility test, the ingestor fails
\* with EmptyOrInvalidData exactly when there is a row and none of the first
\* min(10, n) rows has timestamp > 0, speed > 0 or lapDistance > 0, whatever
\* the later rows hold; otherwise the coerced rows are passed on, all of
\* them and in input order.
C25_PlausibilityOnFirstTen ==
  /\ outcome = "EmptyOrInvalidData" => NoChannelInFirstTen(ParsedData(file))
  /\ Validated =>
       /\ outcome = "EmptyOrInvalidData" <=> NoChannelInFirstTen(ParsedData(file))
       /\ outcome # "EmptyOrInvalidData" =>
            /\ Len(data) = Len(file.rows)
            /\ \A k \in 1..Len(data) : data[k] = ParseRow(file.rows[k], columnMap(file.headers))

\* a stream of more than ten rows whose eleventh row carries all channels
\* has failed
C25_Witness ==
  /\ outcome = "EmptyOrInvalidData"
  /\ Len(file.rows) > 10
  /\ HasChannel(ParsedData(file), 11)

\* a stream whose only channel rows start at the tenth row is passed on
C25_TenthRowWitness ==
  /\ Validated
  /\ outcome # "EmptyOrInvalidData"
  /\ Len(data) >= 10
  /\ \A k \in 1..9 : ~HasChannel(data, k)
  /\ HasChannel(data, 10)

\* a stream with the speed channel only is passed on
C25_OneChannelWitness ==
  /\ Validated
  /\ outcome # "EmptyOrInvalidData"
  /\ Len(data) > 0
  /\ \A k \in 1..Len(data) : data[k].timestamp = 0 /\ data[k].Laptrigger_lapdist_dls = 0

\* ---- C26 ----

\* the output of an analyzer, << >> before it has run
OutputOf(name) ==
  CASE name = "consistency" -> consistency
    [] name = "braking" -> brakingZones
    [] name = "accel" -> accelerationZones
    [] name = "corners" -> corners
    [] name = "deficits" -> speedDeficits

\* what the call of an analyzer at lines 610-614, made in the order of the
\* source, assigns
SourceOutputOf(name) ==
  CASE name = "consistency" -> << analyzeConsistency(laps) >>
    [] name = "braking" -> analyzeBrakingZones(laps)
    [] name = "accel" -> analyzeAccelerationZones(laps)
    [] name = "corners" -> analyzeCorners(laps)
    [] name = "deficits" -> analyzeSpeedDeficits(laps, bestSectors)

C26_DoneWitness ==
  /\ probe.fn = "analyzers"
  /\ pc = "done"
  /\ speedDeficits # << >>
  /\ improvementAreas # << >>

\* in the order of the source the engine returns the same outputs: the
\* sampling loop followed step by step gives analyzeSpeedDeficits
C26_SourceOrderAgrees ==
  (probe = NoProbe /\ pc = "done") =>
    \A name \in Analyzers : OutputOf(name) = SourceOutputOf(name)

\* ---- C27 ----

\* the positions of synthesizePerfectLap at which detectLaps has not returned
BeforeLapsReturned == {"start", "headers", "rows", "loaded", "detect"}

\* C27: once parseTelemetryCSV has returned no step changes the parsed
\* sample sequence, and once detectLaps has returned no step (sector
\* extraction, synthesis, an analyzer, the ranker) changes a lap: lapNumber,
\* startIndex, endIndex, samples and lapTime stay as detectLaps returned them.
C27_LapsAndSamplesFrozen ==
  [][/\ pc \notin {"start", "headers", "rows"} => data' = data
     /\ pc \notin BeforeLapsReturned => laps' = laps]_vars

\* every stage has run on two laps and produced output
C27_Witness ==
  /\ pc = "done"
  /\ Len(laps) = 2
  /\ Len(bestSectors) = Len(COTA_SECTORS)
  /\ brakingZones # << >>
  /\ corners # << >>
  /\ improvementAreas # << >>

\* ---- C28 ----

\* C28: the laps detectLaps returns have index ranges inside the stream,
\* pairwise disjoint and increasing in lap order; the samples of a lap are
\* the stream samples of its range, more than 10 of them, and no reset pair
\* (distance above 3000 followed by distance below 200) has both samples in
\* one lap.
C28_LapRangesWellFormed ==
  pc = "detected" =>
    \A k \in 1..Len(laps) :
      /\ 0 <= laps[k].startIndex
      /\ laps[k].startIndex <= laps[k].endIndex
      /\ laps[k].endIndex <= Len(data) - 1
      /\ \A m \in 1..Len(laps) : k < m => laps[k].endIndex < laps[m].startIndex
      /\ Len(laps[k].data) = laps[k].endIndex - laps[k].startIndex + 1
      /\ \A j \in 1..Len(laps[k].data) : laps[k].data[j] = data[laps[k].startIndex + j]
      /\ Len(laps[k].data) > 10
      /\ \A b \in 1..(Len(data) - 1) :
           (data[b].Laptrigger_lapdist_dls > 3000 /\ data[b + 1].Laptrigger_lapdist_dls < 200)
             => ~(laps[k].startIndex <= b - 1 /\ b <= laps[k].endIndex)

\* two laps are returned, the second starting at the reset sample that ends
\* the first
C28_Witness ==
  /\ pc = "detected"
  /\ Len(laps) = 2
  /\ laps[1].endIndex + 1 = laps[2].startIndex
  /\ \E b \in 1..(Len(data) - 1) :
       /\ data[b].Laptrigger_lapdist_dls > 3000
       /\ data[b + 1].Laptrigger_lapdist_dls < 200
       /\ b = laps[2].startIndex

\* one lap is returned and a shorter segment around it is not
C28_GapWitness ==
  /\ pc = "detected"
  /\ Len(laps) = 1
  /\ laps[1].endIndex - laps[1].startIndex + 1 < Len(data)

\* ---- C29 ----

ZonesOf(kind) == IF kind = "braking" THEN brakingZones ELSE accelerationZones

\* the starts a of a stretch a..last of active samples that reaches the last
\* sample of the lap
OpenAtEnd(lap, kind) ==
  { a \in 0..(Len(lap.data) - 1) : \A j \in a..(Len(lap.data) - 1) : ActiveAt(lap, kind, j) }

\* the zone m of a scan lies in one lap: it is a stretch a..b of active
\* samples of the lap it names, and the sample after b is a sample of that
\* lap too
InsideItsLap(kind, m) ==
  \E k \in 1..Len(laps) :
    /\ laps[k].lapNumber = ZonesOf(kind)[m].lapNumber
    /\ \E a, b \in 0..(Len(laps[k].data) - 2) :
         /\ a <= b
         /\ \A j \in a..b : ActiveAt(laps[k], kind, j)
         /\ ZoneKey(laps[k], << a, b >>) = KeysOf(ZonesOf(kind))[m]

\* the zones a scan emitted for lap k
ZonesOfLap(kind, k) ==
  { m \in 1..Len(ZonesOf(kind)) : ZonesOf(kind)[m].lapNumber = laps[k].lapNumber }

\* C29: a lap has as many zones as it has maximal stretches of at least 4
\* active samples that end before its last sample, so the stretch that
\* reaches the last sample of the lap adds none, however long; and every
\* emitted zone is a stretch of samples of the one lap it names.
C29_OpenZonesDropped ==
  pc \in {"corners", "done"} =>
    \A kind \in {"braking", "accel"} :
      /\ \A m \in 1..Len(ZonesOf(kind)) : InsideItsLap(kind, m)
      /\ \A k \in 1..Len(laps) :
           Cardinality(ZonesOfLap(kind, k)) =
             Cardinality({ r \in ClosedRuns(laps[k], kind) : r[2] - r[1] + 1 >= 4 })

\* the first of two laps ends on 5 braking samples, the second starts on
\* braking samples, and each lap has one braking zone
C29_Witness ==
  /\ pc = "corners"
  /\ Len(laps) = 2
  /\ Len(laps[1].data) - 5 \in OpenAtEnd(laps[1], "braking")
  /\ ActiveAt(laps[2], "braking", 0)
  /\ Len(brakingZones) = 2
  /\ brakingZones[1].lapNumber = 1
  /\ brakingZones[2].lapNumber = 2

\* ---- C30 ----

\* list a occurs in list b in order, not necessarily contiguously
RECURSIVE IsSubsequence(_, _)
IsSubsequence(a, b) ==
  IF a = << >> THEN TRUE
  ELSE IF b = << >> THEN FALSE
  ELSE IF Head(a) = Head(b) THEN IsSubsequence(Tail(a), Tail(b))
  ELSE IsSubsequence(a, Tail(b))

\* C30 as stated: whatever the order of the history response and the steps
\* of handleSend, the displayed list contains every message handleSend has
\* appended so far, in the order of appending.
C30_AppendedStayListed == IsSubsequence(appended, messages)

\* the history response has replaced a list that held the user's message:
\* the message is not displayed, and the reply is appended after the history
C30_MessageLost ==
  /\ historyPc = "returned"
  /\ sendPc = "idle"
  /\ Len(appended) = 2
  /\ Len(messages) = 3
  /\ messages[3] = appended[2]
  /\ \A m \in 1..Len(messages) : messages[m] # appended[1]

\* the history response arrived before the send: nothing is lost
C30_HistoryFirst ==
  /\ historyPc = "returned"
  /\ sendPc = "idle"
  /\ Len(appended) = 2
  /\ Len(messages) = 4
  /\ IsSubsequence(appended, messages)
====
